---------------------------- MODULE Spec2Model ----------------------------
(***************************************************************************)
(* A model of the interactive geometry renderer (GeometryRenderer, first   *)
(* component of src/unnamed/part_002) and of the host page that owns the   *)
(* scene (src/app/page.tsx).                                               *)
(*                                                                         *)
(* Numbers.  JavaScript numbers are modelled by exact rationals            *)
(* [n |-> numerator, d |-> denominator > 0] in lowest terms, so the model  *)
(* is the code's arithmetic without floating-point rounding.  Screen       *)
(* coordinates behind a rotation by a multiple of 15 degrees are exact     *)
(* elements a + b*sqrt2 + c*sqrt3 + d*sqrt6 of Q(sqrt2, sqrt3), written    *)
(* <<a, b, c, d>>.                                                         *)
(***************************************************************************)
EXTENDS Integers, Sequences, FiniteSets, TLC

(***************************************************************************)
(* Exact rational arithmetic.                                              *)
(***************************************************************************)
Abs(i) == IF i < 0 THEN -i ELSE i

RECURSIVE GCD(_, _)
GCD(a, b) == IF b = 0 THEN a ELSE GCD(b, a % b)

\* The rational n/d (d # 0) in lowest terms with a positive denominator.
Reduce(n, d, g) == [n |-> n \div g, d |-> d \div g]
Q(n, d) ==
  IF d < 0 THEN Reduce(-n, -d, GCD(Abs(n), -d)) ELSE Reduce(n, d, GCD(Abs(n), d))

R(i) == [n |-> i, d |-> 1]

RAdd(a, b) == Q(a.n * b.d + b.n * a.d, a.d * b.d)
RSub(a, b) == Q(a.n * b.d - b.n * a.d, a.d * b.d)
RMul(a, b) == Q(a.n * b.n, a.d * b.d)
RDiv(a, b) == Q(a.n * b.d, a.d * b.n)
RNeg(a) == [n |-> -a.n, d |-> a.d]
RLt(a, b) == a.n * b.d < b.n * a.d
RLe(a, b) == a.n * b.d <= b.n * a.d
RMin(a, b) == IF RLt(b, a) THEN b ELSE a
RMax(a, b) == IF RLt(a, b) THEN b ELSE a
RIsInteger(a) == a.d = 1

\* Math.min(...xs) and Math.max(...xs) over a non-empty sequence.
RECURSIVE MinOf(_)
MinOf(xs) == IF Len(xs) = 1 THEN xs[1] ELSE RMin(xs[1], MinOf(Tail(xs)))

RECURSIVE MaxOf(_)
MaxOf(xs) == IF Len(xs) = 1 THEN xs[1] ELSE RMax(xs[1], MaxOf(Tail(xs)))

\* JavaScript's a % b on integers: the remainder takes the sign of a.
JsRem(a, b) == IF a >= 0 THEN a % b ELSE -((-a) % b)

\* A value the code computes once and then reads, such as a const, is bound
\* here as  CHOOSE r \in {Body(v) : v \in {value}} : TRUE,  the Body of the
\* one value.

\* An optional number or object that is absent (undefined).  An absent flag is
\* FALSE: the code only tests it for truthiness.
Undef == [undefined |-> TRUE]

(***************************************************************************)
(* The component's state: the data prop owned by the host page and the     *)
(* useState cells of GeometryRenderer.                                     *)
(***************************************************************************)
VARIABLES
  data,        \* the scene (props.data = the page's geometryData)
  showGrid,    \* useState(true)
  zoomLevel,   \* useState(1), a rational
  flipX,       \* useState(false)
  flipY,       \* useState(false)
  rotation,    \* useState(0), degrees
  panOffset,   \* useState({x: 0, y: 0})
  isDragging,  \* useState(false)
  dragStart,   \* useState({x: 0, y: 0})
  gesture,     \* the d3 drag gesture in progress on a point marker, or NoGesture
  rendered,    \* isDragging and dragStart as the committed render's handlers read them
  edits,       \* number of scene replacements so far (bounds the exploration)
  loop,        \* the curve sampling loop being stepped, or Idle
  imagePreview,  \* page.tsx useState(null): whether an image preview is set
  analyzedText,  \* page.tsx useState(''): "" or the analysed text
  userText,      \* page.tsx useState(''): "" or a request text
  isLoading,     \* page.tsx useState(false)
  error,         \* page.tsx useState(null): "" or a message
  requests,      \* the fetch calls of the page whose promise is pending
  sent           \* number of fetch calls made so far (names the requests)

view == <<showGrid, zoomLevel, flipX, flipY, rotation, panOffset, isDragging, dragStart>>
vars == <<data, showGrid, zoomLevel, flipX, flipY, rotation, panOffset,
          isDragging, dragStart, rendered, gesture, edits, loop,
          imagePreview, analyzedText, userText, isLoading, error, requests, sent>>

\* No handler of the page runs: its useState cells and pending fetches stay.
PageUnchanged ==
  UNCHANGED <<imagePreview, analyzedText, userText, isLoading, error, requests, sent>>

\* The useState cells of Home as mounted; nothing has been fetched.
InitHome ==
  /\ imagePreview = FALSE
  /\ analyzedText = ""
  /\ userText = ""
  /\ isLoading = FALSE
  /\ error = ""
  /\ requests = {}
  /\ sent = 0

NoGesture == [active |-> FALSE]
Idle == [pc |-> "idle"]

\* The canvas: const width, height, padding of the render effect.
width == 800
height == 600
padding == 80

defaultData ==
  [points |-> << [label |-> "A", x |-> R(0), y |-> R(0), visible |-> TRUE],
                 [label |-> "B", x |-> R(5), y |-> R(0), visible |-> TRUE],
                 [label |-> "C", x |-> Q(5, 2), y |-> R(4), visible |-> TRUE] >>,
   lines |-> << [start |-> "A", end |-> "B", showLength |-> TRUE, length |-> R(5),
                 showLengthArc |-> FALSE],
                [start |-> "B", end |-> "C", showLength |-> TRUE, length |-> R(5),
                 showLengthArc |-> FALSE],
                [start |-> "C", end |-> "A", showLength |-> TRUE, length |-> R(5),
                 showLengthArc |-> FALSE] >>,
   angles |-> << >>,
   circles |-> << >>,
   curves |-> << >>]


(***************************************************************************)
(* Curve sampling: the loop that the bounds calculation and the curve      *)
(* drawing both run (identical code at lines 730-757 and 1017-1045).       *)
(***************************************************************************)
\* Math.E, the default base; it is no rational.
MathE == [mathE |-> TRUE]

\* The sample count used when curve.points is falsy.
DefaultPoints == 100

\* Largest |k| for which base^k is looked up as an exact value.
MaxLogExp == 4

\* Passes of a sampling loop that the pass-by-pass model follows.
MaxIter == 110

\* Passes after which Render reports a sampling loop as still running.
MaxPasses == 5

\* b^k for a rational b and an integer k (b # 0 when k < 0).
RPow(b, k) ==
  IF k >= 0 THEN [n |-> b.n ^ k, d |-> b.d ^ k]
  ELSE Q(b.d ^ (-k), b.n ^ (-k))

\* Math.pow(base, x) where the value is rational: x an integer (x = 0 for base e).
Pow(base, x) ==
  IF base = MathE
    THEN CASE x = R(0) -> R(1)
    ELSE CASE RIsInteger(x) -> RPow(base, x.n)

\* Math.log(x) / Math.log(base) for x > 0 where the value is rational: the k
\* with base^k = x, for a rational base.
LogBase(base, x) ==
  R(CHOOSE k \in (-MaxLogExp)..MaxLogExp : base # MathE /\ RPow(base, k) = x)

\* curve.coefficient || 1, curve.base || Math.E, curve.points || 100
CoefOf(curve) ==
  IF curve.coefficient = Undef \/ curve.coefficient = R(0) THEN R(1) ELSE curve.coefficient

BaseOf(curve) ==
  IF curve.base = Undef \/ curve.base = R(0) THEN MathE ELSE curve.base

\* const step = (max - min) / (curve.points || 100)
StepOf(curve) ==
  RDiv(RSub(curve.xRange.max, curve.xRange.min),
       R(IF curve.points = 0 THEN DefaultPoints ELSE curve.points))

\* the loop test x <= max
LoopTest(curve, x) == RLe(x, curve.xRange.max)

\* if (x <= 0 && curve.type === 'logarithm') continue;
SkipSample(curve, x) == RLe(x, R(0)) /\ curve.type = "logarithm"

\* the switch on curve.type; an unknown type leaves y = 0
CurveY(curve, x) ==
  CASE curve.type = "linear" -> RMul(CoefOf(curve), x)
    [] curve.type = "quadratic" -> RMul(RMul(CoefOf(curve), x), x)
    [] curve.type = "logarithm" ->
         RMul(CoefOf(curve), IF x = R(1) THEN R(0) ELSE LogBase(BaseOf(curve), x))
    [] curve.type = "exponential" -> RMul(CoefOf(curve), Pow(BaseOf(curve), x))
    [] OTHER -> R(0)

\* The loop run from x with `fuel` iterations left: the samples pushed and
\* whether the loop test failed (done) before the fuel ran out.
\* One pass of the loop body at x, ahead of the samples of the later passes.
LoopBody(curve, x, rest) ==
  [done |-> rest.done,
   pts |-> (IF SkipSample(curve, x) THEN << >> ELSE << <<x, CurveY(curve, x)>> >>)
           \o rest.pts]

RECURSIVE SampleFrom(_, _, _)
SampleFrom(curve, x, fuel) ==
  IF ~LoopTest(curve, x) THEN [done |-> TRUE, pts |-> << >>]
  ELSE IF fuel = 0 THEN [done |-> FALSE, pts |-> << >>]
  ELSE LoopBody(curve, x, SampleFrom(curve, RAdd(x, StepOf(curve)), fuel - 1))

SampleCurve(curve) == SampleFrom(curve, curve.xRange.min, MaxPasses)

(***************************************************************************)
(* Bounds and the coordinate mapper of the render effect.                  *)
(***************************************************************************)
\* FindPoint falling back to the first point when no label matches.
FindPoint_FirstOnMiss(points, label) ==
  IF \E i \in 1..Len(points) : points[i].label = label
    THEN points[CHOOSE i \in 1..Len(points) : points[i].label = label]
    ELSE points[1]

\* points.find(p => p.label === label): the first match, or Undef.
FindPoint(points, label) ==
  IF \E i \in 1..Len(points) : points[i].label = label
    THEN points[CHOOSE i \in 1..Len(points) :
                  /\ points[i].label = label
                  /\ \A j \in 1..(i - 1) : points[j].label # label]
    ELSE Undef

\* points.map(p => p.x), points.map(p => p.y)
PX(points) == [i \in 1..Len(points) |-> points[i].x]
PY(points) == [i \in 1..Len(points) |-> points[i].y]

\* circles.forEach(c => ...) widening the box by centre +- radius
WidenByCircle(b, center, c) ==
  IF center = Undef THEN b
  ELSE [xMin |-> RMin(b.xMin, RSub(center.x, c.radius)),
        xMax |-> RMax(b.xMax, RAdd(center.x, c.radius)),
        yMin |-> RMin(b.yMin, RSub(center.y, c.radius)),
        yMax |-> RMax(b.yMax, RAdd(center.y, c.radius))]

RECURSIVE CircleBounds(_, _, _)
CircleBounds(b, points, circles) ==
  IF circles = << >> THEN b
  ELSE CircleBounds(WidenByCircle(b, FindPoint(points, circles[1].center), circles[1]),
                    points, Tail(circles))

\* the y of every sample pushed: yValues.push(y)
SampleYs(pts) == [i \in 1..Len(pts) |-> pts[i][2]]

RECURSIVE CurveYValues(_)
CurveYValues(curves) ==
  IF curves = << >> THEN << >>
  ELSE SampleYs(SampleCurve(curves[1]).pts) \o CurveYValues(Tail(curves))

\* xMin, xMax, yMin, yMax of the scene (lines 693-765).
\* the box of the points, or -10..10 when there are none (lines 693-712)
PointBounds(points) ==
  IF Len(points) > 0
    THEN [xMin |-> MinOf(PX(points)), xMax |-> MaxOf(PX(points)),
          yMin |-> MinOf(PY(points)), yMax |-> MaxOf(PY(points))]
    ELSE [xMin |-> R(-10), xMax |-> R(10), yMin |-> R(-10), yMax |-> R(10)]

\* the box b widened by the x ranges and the sampled y values of the curves
CurveBounds(b, curves, yValues) ==
  IF Len(curves) > 0
    THEN [xMin |-> MinOf(<<b.xMin>> \o [i \in 1..Len(curves) |-> curves[i].xRange.min]),
          xMax |-> MaxOf(<<b.xMax>> \o [i \in 1..Len(curves) |-> curves[i].xRange.max]),
          yMin |-> IF Len(yValues) > 0 THEN MinOf(<<b.yMin>> \o yValues) ELSE b.yMin,
          yMax |-> IF Len(yValues) > 0 THEN MaxOf(<<b.yMax>> \o yValues) ELSE b.yMax]
    ELSE b

Bounds(scene) ==
  CurveBounds(CircleBounds(PointBounds(scene.points), scene.points, scene.circles),
              scene.curves, CurveYValues(scene.curves))

\* Whether every sampling loop of the bounds calculation ends.
BoundsLoopsEnd(scene) == \A i \in 1..Len(scene.curves) : SampleCurve(scene.curves[i]).done

\* The square-grid domain centred on the origin (lines 767-787).
\* Math.max(shapeWidth, shapeHeight), each at least 20
maxRange(b) == RMax(RMax(RSub(b.xMax, b.xMin), R(20)), RMax(RSub(b.yMax, b.yMin), R(20)))

svgAspectRatio == Q(width - 2 * padding, height - 2 * padding)

\* yDomainSize = Math.max(15, maxRange), xDomainSize = Math.max(15, maxRange) * svgAspectRatio;
\* xDomainSize_NoAspect leaves the aspect ratio out.
yDomainSize(range) == RMax(R(15), range)
xDomainSize_NoAspect(range) == RMax(R(15), range)
xDomainSize(range) == RMul(RMax(R(15), range), svgAspectRatio)

DomainOfSize(b, xSize, ySize) ==
  [xDomainMin |-> RDiv(RNeg(xSize), R(2)), xDomainMax |-> RDiv(xSize, R(2)),
   yDomainMin |-> RDiv(RNeg(ySize), R(2)), yDomainMax |-> RDiv(ySize, R(2)),
   xMin |-> b.xMin, xMax |-> b.xMax, yMin |-> b.yMin, yMax |-> b.yMax]

DomainOfBounds(b) ==
  CHOOSE r \in {DomainOfSize(b, size[1], size[2]) :
                 size \in {<<xDomainSize(range), yDomainSize(range)>> :
                            range \in {maxRange(b)}}} : TRUE

DomainOf(scene) == CHOOSE r \in {DomainOfBounds(b) : b \in {Bounds(scene)}} : TRUE

\* d3.scaleLinear().domain([d0, d1]).range([r0, r1]) applied to x.
\* x is normalised to its position t in the domain, and t interpolated in the range.
ScaleLinear(d0, d1, r0, r1, x) ==
  CHOOSE r \in {RAdd(r0, RMul(t, RSub(r1, r0))) : t \in {RDiv(RSub(x, d0), RSub(d1, d0))}} : TRUE

xScale(dom, x) == ScaleLinear(dom.xDomainMin, dom.xDomainMax, R(padding), R(width - padding), x)
yScale(dom, y) == ScaleLinear(dom.yDomainMin, dom.yDomainMax, R(height - padding), R(padding), y)
xInverse(dom, sx) == ScaleLinear(R(padding), R(width - padding), dom.xDomainMin, dom.xDomainMax, sx)
yInverse(dom, sy) == ScaleLinear(R(height - padding), R(padding), dom.yDomainMin, dom.yDomainMax, sy)


(***************************************************************************)
(* Exact screen coordinates: a + b*sqrt2 + c*sqrt3 + d*sqrt6, with         *)
(* rational a, b, c, d.  cos and sin of every multiple of 15 degrees lie   *)
(* in this field.                                                          *)
(***************************************************************************)
SOf(r) == <<r, R(0), R(0), R(0)>>
SAdd(u, v) == <<RAdd(u[1], v[1]), RAdd(u[2], v[2]), RAdd(u[3], v[3]), RAdd(u[4], v[4])>>
SNeg(u) == <<RNeg(u[1]), RNeg(u[2]), RNeg(u[3]), RNeg(u[4])>>
SSub(u, v) == SAdd(u, SNeg(v))
RSum4(a, b, c, d) == RAdd(RAdd(a, b), RAdd(c, d))
SMul(u, v) ==
  << RSum4(RMul(u[1], v[1]), RMul(R(2), RMul(u[2], v[2])),
           RMul(R(3), RMul(u[3], v[3])), RMul(R(6), RMul(u[4], v[4]))),
     RSum4(RMul(u[1], v[2]), RMul(u[2], v[1]),
           RMul(R(3), RMul(u[3], v[4])), RMul(R(3), RMul(u[4], v[3]))),
     RSum4(RMul(u[1], v[3]), RMul(u[3], v[1]),
           RMul(R(2), RMul(u[2], v[4])), RMul(R(2), RMul(u[4], v[2]))),
     RSum4(RMul(u[1], v[4]), RMul(u[4], v[1]),
           RMul(u[2], v[3]), RMul(u[3], v[2])) >>

\* cos of a multiple of 15 degrees in 0..90.
CosBase(a) ==
  CASE a = 0 -> <<R(1), R(0), R(0), R(0)>>
    [] a = 15 -> <<R(0), Q(1, 4), R(0), Q(1, 4)>>
    [] a = 30 -> <<R(0), R(0), Q(1, 2), R(0)>>
    [] a = 45 -> <<R(0), Q(1, 2), R(0), R(0)>>
    [] a = 60 -> <<Q(1, 2), R(0), R(0), R(0)>>
    [] a = 75 -> <<R(0), Q(-1, 4), R(0), Q(1, 4)>>
    [] a = 90 -> <<R(0), R(0), R(0), R(0)>>

\* cos of any multiple of 15 degrees
Cos(deg) ==
  CASE (deg % 360) <= 90 -> CosBase(deg % 360)
    [] (deg % 360) > 90 /\ (deg % 360) <= 180 -> SNeg(CosBase(180 - (deg % 360)))
    [] (deg % 360) > 180 /\ (deg % 360) <= 270 -> SNeg(CosBase((deg % 360) - 180))
    [] (deg % 360) > 270 -> CosBase(360 - (deg % 360))
Sin(deg) == Cos(deg - 90)

(***************************************************************************)
(* SVG transform lists.  A list "t1 t2 ... tn" maps a point by tn first    *)
(* and t1 last.                                                            *)
(***************************************************************************)
Translate(x, y) == [op |-> "translate", x |-> x, y |-> y]
Scale(x, y) == [op |-> "scale", x |-> x, y |-> y]
Rotate(a) == [op |-> "rotate", a |-> a]

\* translate(x, y): p + (x, y); scale(x, y): (x * p.x, y * p.y);
\* rotate(a): (cos a * p.x - sin a * p.y, sin a * p.x + cos a * p.y)
ApplyOne(t, p) ==
  CASE t.op = "translate" -> <<SAdd(p[1], SOf(t.x)), SAdd(p[2], SOf(t.y))>>
    [] t.op = "scale" ->
         << [i \in 1..4 |-> RMul(t.x, p[1][i])], [i \in 1..4 |-> RMul(t.y, p[2][i])] >>
    [] t.op = "rotate" ->
         CHOOSE r \in {<< SSub(m[1], m[2]), SAdd(m[3], m[4]) >> :
                        m \in {<< SMul(Cos(t.a), p[1]), SMul(Sin(t.a), p[2]),
                                  SMul(Sin(t.a), p[1]), SMul(Cos(t.a), p[2]) >>}} : TRUE

RECURSIVE ApplyTransform(_, _)
ApplyTransform(ts, p) ==
  IF ts = << >> THEN p
  ELSE CHOOSE r \in {ApplyOne(ts[1], q) : q \in {ApplyTransform(Tail(ts), p)}} : TRUE

SPoint(x, y) == <<SOf(x), SOf(y)>>

\* The 2x2 linear part of a transform list, as its two columns: the images of
\* (1, 0) and (0, 1) less the image of the origin.
LinearPart(ts) ==
  CHOOSE r \in {<< <<SSub(image[2][1], image[1][1]), SSub(image[2][2], image[1][2])>>,
                    <<SSub(image[3][1], image[1][1]), SSub(image[3][2], image[1][2])>> >> :
                 image \in {<< ApplyTransform(ts, SPoint(R(0), R(0))),
                               ApplyTransform(ts, SPoint(R(1), R(0))),
                               ApplyTransform(ts, SPoint(R(0), R(1))) >>}} : TRUE

centerX == Q(width, 2)
centerY == Q(height, 2)

\* (width * (1 - zoomLevel)) / (2 * zoomLevel), and the same for height
zoomOffsetX(zoom) == RDiv(RMul(R(width), RSub(R(1), zoom)), RMul(R(2), zoom))
zoomOffsetY(zoom) == RDiv(RMul(R(height), RSub(R(1), zoom)), RMul(R(2), zoom))

FlipSign(flip) == IF flip THEN R(-1) ELSE R(1)

\* The transform attribute of gridGroup (pan and zoom only).
gridGroupTransform(pan, zoom) ==
  << Translate(R(pan.x), R(pan.y)),
     Translate(centerX, centerY),
     Scale(zoom, zoom),
     Translate(RNeg(centerX), RNeg(centerY)),
     Translate(zoomOffsetX(zoom), zoomOffsetY(zoom)) >>

\* The transform attribute of shapeGroup (pan, rotation, zoom and flips).
shapeGroupTransform(pan, zoom, fx, fy, rot) ==
  << Translate(R(pan.x), R(pan.y)),
     Translate(centerX, centerY),
     Rotate(rot),
     Scale(RMul(zoom, FlipSign(fx)), RMul(zoom, FlipSign(fy))),
     Translate(RNeg(centerX), RNeg(centerY)),
     Translate(zoomOffsetX(zoom), zoomOffsetY(zoom)) >>

\* The local transform createNonFlippedText gives the group around a text
\* placed at screen position (textX, textY).
createNonFlippedText(textX, textY, fx, fy, rot) ==
  << Translate(textX, textY) >>
  \o (IF fx \/ fy \/ rot # 0
        THEN (IF rot # 0 THEN << Rotate(-rot) >> ELSE << >>)
             \o << Scale(FlipSign(fx), FlipSign(fy)) >>
        ELSE << >>)


(***************************************************************************)
(* The render effect (lines 677-1731): what the SVG holds after it ran.    *)
(* The outcome is "ok", "error" (an exception left the effect: the layers  *)
(* after the throw are not drawn) or "hang" (a sampling loop never ends).  *)
(* Primitives are listed in document order, which is paint order.          *)
(***************************************************************************)
\* Not-a-number, the result of 0 / 0.
NaN == [nan |-> TRUE]

\* |num| in hundredths, rounded half up: floor(|num| * 100 + 1/2)
Hundredths(num) == (200 * Abs(num.n) + num.d) \div (2 * num.d)

\* num.toFixed(2)
toFixed2(num) ==
  (IF num.n < 0 THEN "-" ELSE "") \o ToString(Hundredths(num) \div 100) \o "."
  \o ToString((Hundredths(num) % 100) \div 10) \o ToString(Hundredths(num) % 10)

\* Number.isInteger(num) ? num.toString() : num.toFixed(2)
formatNumber(num) == IF RIsInteger(num) THEN ToString(num.n) ELSE toFixed2(num)

\* A text drawn through createNonFlippedText at data position (x, y).
NonFlippedText(dom, v, x, y, text) ==
  CHOOSE r \in {[group |-> "shape", kind |-> "text", text |-> text,
                  transform |-> createNonFlippedText(at[1], at[2],
                                                     v.flipX, v.flipY, v.rotation)] :
                 at \in {<<xScale(dom, x), yScale(dom, y)>>}} : TRUE

\* The grid layer (lines 915-1000): background, grid lines every
\* adjustedGridStep units, and the emphasised origin lines.
DrawGrid(dom, v) ==
  IF v.showGrid
    THEN << [group |-> "grid", kind |-> "background"],
            [group |-> "grid", kind |-> "gridlines",
             step |-> IF RLt(v.zoomLevel, Q(8, 10)) THEN 5 ELSE 1] >>
         \o (IF /\ RLe(dom.xDomainMin, R(0)) /\ RLe(R(0), dom.xDomainMax)
                /\ RLe(dom.yDomainMin, R(0)) /\ RLe(R(0), dom.yDomainMax)
               THEN << [group |-> "grid", kind |-> "originlines"] >>
               ELSE << >>)
    ELSE << >>

\* The axes, drawn only when the scene has curves (lines 1003-1014).
DrawAxes(scene) ==
  IF Len(scene.curves) > 0
    THEN << [group |-> "grid", kind |-> "axis", orient |-> "bottom"],
            [group |-> "grid", kind |-> "axis", orient |-> "left"] >>
    ELSE << >>

\* `${n}` for a number with an integer value
NumberString(num) == CASE RIsInteger(num) -> ToString(num.n)

\* The function name shown beside a curve (lines 1061-1078).
LabelText(type, coef, base) ==
  CASE type = "linear" -> "y = " \o coef \o "x"
    [] type = "quadratic" -> "y = " \o coef \o "x^2"
    [] type = "logarithm" ->
         "y = " \o coef \o "log" \o (IF base # MathE THEN NumberString(base) ELSE "")
         \o "(x)"
    [] type = "exponential" ->
         "y = " \o coef \o (IF base # MathE THEN NumberString(base) ELSE "e") \o "^x"
    [] OTHER -> ""

\* One pass of curves.forEach (lines 1017-1086): the polyline, then the label
\* anchored at the last sample.  Reading lastPoint[0] throws when no sample
\* was kept.
CurvePath(dom, pts) ==
  [group |-> "shape", kind |-> "curve",
   pts |-> [i \in 1..Len(pts) |-> <<xScale(dom, pts[i][1]), yScale(dom, pts[i][2])>>]]

\* The label is a text appended to shapeGroup directly: it has no local
\* transform.
DrawSamples(dom, curve, pts) ==
  IF Len(pts) = 0
    THEN [threw |-> TRUE, prims |-> << CurvePath(dom, pts) >>]
    ELSE [threw |-> FALSE,
          prims |-> << CurvePath(dom, pts),
                       [group |-> "shape", kind |-> "text",
                        text |-> LabelText(curve.type, NumberString(CoefOf(curve)),
                                           BaseOf(curve)),
                        x |-> xScale(dom, pts[Len(pts)][1]),
                        y |-> RSub(yScale(dom, pts[Len(pts)][2]), R(10)),
                        transform |-> << >>] >>]

\* the passes after one that drew `first`: none when it threw
Then(first, rest) ==
  IF first.threw THEN first
  ELSE [threw |-> rest.threw, prims |-> first.prims \o rest.prims]

RECURSIVE DrawCurves(_, _)
DrawCurves(dom, curves) ==
  IF curves = << >> THEN [threw |-> FALSE, prims |-> << >>]
  ELSE Then(DrawSamples(dom, curves[1], SampleCurve(curves[1]).pts),
            DrawCurves(dom, Tail(curves)))

\* Truthiness of line.length: undefined and 0 are falsy.
HasLength(line) == line.length # Undef /\ line.length # R(0)

\* One pass of actualData.lines.forEach (lines 1089-1165).
midX(startPoint, endPoint) == RDiv(RAdd(startPoint.x, endPoint.x), R(2))
midY(startPoint, endPoint) == RDiv(RAdd(startPoint.y, endPoint.y), R(2))

\* mid + perp * arcHeight, with perp * arcHeight = (dy, -dx) / distance * (distance * 0.15)
controlX(startPoint, endPoint) ==
  RAdd(midX(startPoint, endPoint), RMul(RSub(endPoint.y, startPoint.y), Q(15, 100)))
controlY(startPoint, endPoint) ==
  RSub(midY(startPoint, endPoint), RMul(RSub(endPoint.x, startPoint.x), Q(15, 100)))

\* the length text at the midpoint (lines 1104-1115)
LengthText(dom, v, line, startPoint, endPoint) ==
  IF line.showLength /\ HasLength(line)
    THEN << NonFlippedText(dom, v, midX(startPoint, endPoint),
                           RSub(midY(startPoint, endPoint), Q(3, 10)),
                           formatNumber(line.length)) >>
    ELSE << >>

\* LengthArc drawing the arc without the text at its control point.
LengthArc_NoText(dom, v, line, startPoint, endPoint) ==
  IF line.showLengthArc /\ HasLength(line)
    THEN << [group |-> "shape", kind |-> "lengtharc",
             x1 |-> xScale(dom, startPoint.x), y1 |-> yScale(dom, startPoint.y),
             cx |-> xScale(dom, controlX(startPoint, endPoint)),
             cy |-> yScale(dom, controlY(startPoint, endPoint)),
             x2 |-> xScale(dom, endPoint.x), y2 |-> yScale(dom, endPoint.y)] >>
    ELSE << >>

\* the length arc and its text (lines 1118-1163); distance = 0 makes
\* dirX = dirY = 0 / 0
LengthArc(dom, v, line, startPoint, endPoint) ==
  IF line.showLengthArc /\ HasLength(line)
    THEN IF startPoint.x = endPoint.x /\ startPoint.y = endPoint.y
           THEN << [group |-> "shape", kind |-> "lengtharc",
                    x1 |-> xScale(dom, startPoint.x), y1 |-> yScale(dom, startPoint.y),
                    cx |-> NaN, cy |-> NaN,
                    x2 |-> xScale(dom, endPoint.x), y2 |-> yScale(dom, endPoint.y)],
                   [group |-> "shape", kind |-> "text",
                    text |-> formatNumber(line.length),
                    transform |-> << Translate(NaN, NaN) >>] >>
           ELSE << [group |-> "shape", kind |-> "lengtharc",
                    x1 |-> xScale(dom, startPoint.x), y1 |-> yScale(dom, startPoint.y),
                    cx |-> xScale(dom, controlX(startPoint, endPoint)),
                    cy |-> yScale(dom, controlY(startPoint, endPoint)),
                    x2 |-> xScale(dom, endPoint.x), y2 |-> yScale(dom, endPoint.y)],
                   NonFlippedText(dom, v, controlX(startPoint, endPoint),
                                  RSub(controlY(startPoint, endPoint), Q(2, 10)),
                                  formatNumber(line.length)) >>
    ELSE << >>

\* if (startPoint && endPoint) { ... }
DrawLineBetween(dom, v, line, startPoint, endPoint) ==
  IF startPoint # Undef /\ endPoint # Undef
    THEN << [group |-> "shape", kind |-> "line",
             x1 |-> xScale(dom, startPoint.x), y1 |-> yScale(dom, startPoint.y),
             x2 |-> xScale(dom, endPoint.x), y2 |-> yScale(dom, endPoint.y)] >>
         \o LengthText(dom, v, line, startPoint, endPoint)
         \o LengthArc(dom, v, line, startPoint, endPoint)
    ELSE << >>

DrawLine(dom, v, points, line) ==
  DrawLineBetween(dom, v, line, FindPoint(points, line.start), FindPoint(points, line.end))

RECURSIVE DrawLines(_, _, _, _)
DrawLines(dom, v, points, lines) ==
  IF lines = << >> THEN << >>
  ELSE DrawLine(dom, v, points, lines[1]) \o DrawLines(dom, v, points, Tail(lines))

\* One pass of points.forEach (lines 1704-1730): the marker carrying the drag
\* behaviour and data-index, and the label.
DrawPoint(dom, v, point, index) ==
  IF point.visible = FALSE THEN << >>
  ELSE << [group |-> "shape", kind |-> "marker", index |-> index,
           cx |-> xScale(dom, point.x), cy |-> yScale(dom, point.y)],
          NonFlippedText(dom, v, RAdd(point.x, Q(2, 10)), RSub(point.y, Q(2, 10)),
                         point.label) >>

RECURSIVE DrawPoints(_, _, _, _)
DrawPoints(dom, v, points, from) ==
  IF from > Len(points) THEN << >>
  ELSE DrawPoint(dom, v, points[from], from - 1) \o DrawPoints(dom, v, points, from + 1)

(***************************************************************************)
(* The angle and circle layers (lines 1168-1657).  The angles the code     *)
(* computes in radians are whole degrees here (radians times 180 / pi).    *)
(* The scenes followed keep each ray on an axis and each angle value a     *)
(* multiple of 30 degrees, so that every cos, sin and sqrt is exact.       *)
(***************************************************************************)
\* Math.sqrt of a rational that is a square
Sqrt(a) ==
  Q(CHOOSE k \in 0..a.n : k * k = a.n, CHOOSE k \in 1..a.d : k * k = a.d)

\* Math.atan2(y, x) in degrees, for a direction that is a multiple of 45
\* degrees; atan2(0, 0) = 0
Atan2(y, x) ==
  CASE y.n = 0 -> (IF x.n < 0 THEN 180 ELSE 0)
    [] x.n = 0 -> (IF y.n > 0 THEN 90 ELSE -90)
    [] x = y \/ x = RNeg(y) ->
         (IF y.n > 0 THEN 1 ELSE -1) * (IF x.n > 0 THEN 45 ELSE 135)

\* if (angleDiff > Math.PI) angleDiff -= 2 * Math.PI;
\* if (angleDiff < -Math.PI) angleDiff += 2 * Math.PI;
WrapHalfTurn(angleDiff) ==
  CHOOSE r \in {IF d < -180 THEN d + 360 ELSE d :
                 d \in {IF angleDiff > 180 THEN angleDiff - 360 ELSE angleDiff}} : TRUE

\* r * s for a rational r and an exact coordinate s
STimes(r, s) == [i \in 1..4 |-> RMul(r, s[i])]

\* xScale and yScale of an exact coordinate: the scale is affine
ScaleS(at0, at1, s) ==
  << RAdd(at0, RMul(RSub(at1, at0), s[1])), RMul(RSub(at1, at0), s[2]),
     RMul(RSub(at1, at0), s[3]), RMul(RSub(at1, at0), s[4]) >>
xScaleS(dom, s) == ScaleS(xScale(dom, R(0)), xScale(dom, R(1)), s)
yScaleS(dom, s) == ScaleS(yScale(dom, R(0)), yScale(dom, R(1)), s)

\* createNonFlippedText at an exact data position
NonFlippedTextS(dom, v, x, y, text) ==
  CHOOSE r \in {[group |-> "shape", kind |-> "text", text |-> text,
                  transform |-> createNonFlippedText(at[1], at[2],
                                                     v.flipX, v.flipY, v.rotation)] :
                 at \in {<<xScaleS(dom, x), yScaleS(dom, y)>>}} : TRUE

\* One pass of actualData.angles.forEach (lines 1168-1321).
\* startVector and endVector, and their angles
RayOf(vertexPoint, point) ==
  [x |-> RSub(point.x, vertexPoint.x), y |-> RSub(point.y, vertexPoint.y)]
RayAngle(ray) == Atan2(ray.y, ray.x)

\* isCounterClockwise: the wrapped endAngle - startAngle is > 0
isCounterClockwise(startVector, endVector) ==
  WrapHalfTurn(RayAngle(endVector) - RayAngle(startVector)) > 0

\* actualEndAngle: startAngle moved by angle.value in the direction of the
\* sweep, or endAngle when there is no value
actualEndAngle(angle, startVector, endVector) ==
  IF angle.value # Undef
    THEN RAdd(R(RayAngle(startVector)),
              IF isCounterClockwise(startVector, endVector) THEN angle.value
              ELSE RNeg(angle.value))
    ELSE R(RayAngle(endVector))

\* angle.rotation ? angle.rotation : 0
rotationOffset(angle) == IF angle.rotation = Undef THEN R(0) ELSE angle.rotation

\* Math.abs(angle.value - 90) < 0.1 in double arithmetic, for a value that is a
\* multiple of 0.1.  The doubles of [64, 128) are the multiples of 2^-46, and
\* 2^46 = 10 q + 4: the double nearest 90 + k/10, minus 90, is
\* k q + round(4k / 10) in units of 2^-46, which is <<k, round(4k / 10)>> here;
\* the subtraction is exact.  The double nearest 0.1 is (1024 q + 410) * 2^-56.
TenthsFrom90(value) == (10 * value.n) \div value.d - 900
FloatMinus90(value) ==
  CASE (10 * value.n) % value.d = 0 ->
    << TenthsFrom90(value), (4 * TenthsFrom90(value) + 5) \div 10 >>

\* |x| of x = <<a, b>> standing for a q + b, where q = 7036874417766 exceeds
\* every |b| that occurs
FloatAbs(x) == IF x[1] < 0 \/ (x[1] = 0 /\ x[2] < 0) THEN << -x[1], -x[2] >> ELSE x
FloatLt(x, y) == x[1] < y[1] \/ (x[1] = y[1] /\ x[2] < y[2])

\* undefined - 90 is NaN, and every comparison with NaN is false
NearRightAngle(value) ==
  /\ value # Undef
  /\ \A diff \in {FloatAbs(FloatMinus90(value))} :
       FloatLt(<< 1024 * diff[1], 1024 * diff[2] >>, << 1024, 410 >>)

\* unit vector * squareSize (radius * 0.02 = 0.4): NaN for a vector of length 0
\* (0 / 0)
SquareSide(ray) ==
  IF ray.x = R(0) /\ ray.y = R(0) THEN [x |-> NaN, y |-> NaN]
  ELSE CHOOSE r \in {[x |-> RMul(RDiv(ray.x, len), Q(4, 10)),
                       y |-> RMul(RDiv(ray.y, len), Q(4, 10))] :
                      len \in {Sqrt(RAdd(RMul(ray.x, ray.x), RMul(ray.y, ray.y)))}} : TRUE

\* xScale(vertex.x + d.x) - xScale(vertex.x), yScale(vertex.y + d.y) - yScale(vertex.y)
GlyphPoint(dom, vertexPoint, d) ==
  IF d.x = NaN THEN [x |-> NaN, y |-> NaN]
  ELSE [x |-> RSub(xScale(dom, RAdd(vertexPoint.x, d.x)), xScale(dom, vertexPoint.x)),
        y |-> RSub(yScale(dom, RAdd(vertexPoint.y, d.y)), yScale(dom, vertexPoint.y))]

\* the right-angle glyph (lines 1220-1286): the path through p1, p2, p3 and the
\* small square at p2, in a group translated to the vertex
RightAngleGlyph(dom, vertexPoint, point1, point3) ==
  CHOOSE r \in
    {<< [group |-> "shape", kind |-> "rightangle", p1 |-> p[1], p2 |-> p[2], p3 |-> p[3],
         transform |-> << Translate(xScale(dom, vertexPoint.x), yScale(dom, vertexPoint.y)) >>],
        [group |-> "shape", kind |-> "rightanglesquare",
         x |-> IF p[2].x = NaN THEN NaN ELSE RSub(p[2].x, Q(6, 100)),
         y |-> IF p[2].x = NaN THEN NaN ELSE RSub(p[2].y, Q(6, 100)),
         size |-> Q(12, 100),
         transform |-> << Translate(xScale(dom, vertexPoint.x), yScale(dom, vertexPoint.y)) >>] >> :
     p \in {<< GlyphPoint(dom, vertexPoint, point1),
               GlyphPoint(dom, vertexPoint,
                          IF point1.x = NaN \/ point3.x = NaN THEN [x |-> NaN, y |-> NaN]
                          ELSE [x |-> RAdd(point1.x, point3.x), y |-> RAdd(point1.y, point3.y)]),
               GlyphPoint(dom, vertexPoint, point3) >>}} : TRUE

\* the d3.arc of radius 20 from adjustedStartAngle to adjustedEndAngle
\* (lines 1287-1301), translated to the vertex
AngleArc(dom, vertexPoint, from, to) ==
  << [group |-> "shape", kind |-> "anglearc", radius |-> 20,
      startAngle |-> from, endAngle |-> to,
      transform |-> << Translate(xScale(dom, vertexPoint.x), yScale(dom, vertexPoint.y)) >>] >>

\* `${angle.value}` followed by the degree sign, written "deg"
\* of a number that is a multiple of 0.1
TenthsString(tenths) ==
  ToString(tenths \div 10) \o (IF tenths % 10 = 0 THEN "" ELSE "." \o ToString(tenths % 10))
DegreeString(value) ==
  (CASE value = Undef -> "undefined"
     [] value # Undef /\ (10 * value.n) % value.d = 0 ->
          (IF value.n < 0 THEN "-" ELSE "") \o TenthsString((10 * Abs(value.n)) \div value.d))
  \o "deg"

\* the value text (lines 1304-1318) at labelRadius = 30 along midAngle; where
\* cos and sin of midAngle are not exact, the position base + amp * fn(midAngle)
\* is kept as that expression
AngleLabel(dom, v, angle, vertexPoint, midAngle) ==
  IF RIsInteger(midAngle) /\ midAngle.n % 15 = 0
    THEN NonFlippedTextS(dom, v,
           SAdd(SOf(vertexPoint.x),
                STimes(RMul(Q(30, width), RSub(dom.xMax, dom.xMin)), Cos(midAngle.n))),
           SAdd(SOf(vertexPoint.y),
                STimes(RMul(Q(30, height), RSub(dom.yMax, dom.yMin)), Sin(midAngle.n))),
           DegreeString(angle.value))
    ELSE [group |-> "shape", kind |-> "text", text |-> DegreeString(angle.value),
          transform |->
            createNonFlippedText(
              [base |-> xScale(dom, vertexPoint.x), fn |-> "cos", deg |-> midAngle,
               amp |-> RMul(RSub(xScale(dom, R(1)), xScale(dom, R(0))),
                            RMul(Q(30, width), RSub(dom.xMax, dom.xMin)))],
              [base |-> yScale(dom, vertexPoint.y), fn |-> "sin", deg |-> midAngle,
               amp |-> RMul(RSub(yScale(dom, R(1)), yScale(dom, R(0))),
                            RMul(Q(30, height), RSub(dom.yMax, dom.yMin)))],
              v.flipX, v.flipY, v.rotation)]

\* if (angle.showValue) { ... } with adjustedStartAngle = from, adjustedEndAngle = to
AngleMarker(dom, v, angle, vertexPoint, startVector, endVector, from, to) ==
  IF angle.showValue
    THEN (IF NearRightAngle(angle.value)
            THEN RightAngleGlyph(dom, vertexPoint, SquareSide(startVector),
                                 SquareSide(endVector))
            ELSE AngleArc(dom, vertexPoint, from, to))
         \o << AngleLabel(dom, v, angle, vertexPoint, RDiv(RAdd(from, to), R(2))) >>
    ELSE << >>

\* if (vertexPoint && startPoint && endPoint) { ... }
DrawAngle(dom, v, angle, vertexPoint, startPoint, endPoint) ==
  IF vertexPoint # Undef /\ startPoint # Undef /\ endPoint # Undef
    THEN AngleMarker(dom, v, angle, vertexPoint,
                     RayOf(vertexPoint, startPoint), RayOf(vertexPoint, endPoint),
                     RAdd(R(RayAngle(RayOf(vertexPoint, startPoint))), rotationOffset(angle)),
                     RAdd(actualEndAngle(angle, RayOf(vertexPoint, startPoint),
                                         RayOf(vertexPoint, endPoint)),
                          rotationOffset(angle)))
    ELSE << >>

RECURSIVE DrawAngles(_, _, _, _)
DrawAngles(dom, v, points, angles) ==
  IF angles = << >> THEN << >>
  ELSE DrawAngle(dom, v, angles[1], FindPoint(points, angles[1].vertex),
                 FindPoint(points, angles[1].start), FindPoint(points, angles[1].end))
       \o DrawAngles(dom, v, points, Tail(angles))

\* One pass of actualData.circles.forEach (lines 1324-1657).  An absent
\* startPoint or endPoint is the empty string, falsy like undefined.
\* const isFullCircle
isFullCircle(circle) ==
  \/ ~circle.showArc
  \/ /\ circle.startPoint = "" /\ circle.endPoint = ""
     /\ (circle.startAngle = Undef \/ circle.endAngle = Undef)

\* (circle.startAngle || 0), (circle.endAngle || 0), in degrees
AngleOr0(angle) == IF angle = Undef THEN 0 ELSE angle.n

\* centre + radius * (cos, sin) of an angle in degrees
OnCircle(centerPoint, radius, deg) ==
  [x |-> SAdd(SOf(centerPoint.x), STimes(radius, Cos(deg))),
   y |-> SAdd(SOf(centerPoint.y), STimes(radius, Sin(deg)))]

\* the path "M start A r,r 0 largeArcFlag sweepFlag end", closed by "L centre Z"
\* and followed by the two sides when circle.fillArc
ArcPath(dom, circle, centerPoint, from, to, svgRadius, largeArcFlag, sweepFlag, ends) ==
  << [group |-> "shape", kind |-> IF circle.fillArc THEN "sector" ELSE "arc",
      x1 |-> xScaleS(dom, from.x), y1 |-> yScaleS(dom, from.y), r |-> svgRadius,
      largeArcFlag |-> largeArcFlag, sweepFlag |-> sweepFlag,
      x2 |-> xScaleS(dom, to.x), y2 |-> yScaleS(dom, to.y)] >>
  \o ends
  \o (IF circle.fillArc
        THEN << [group |-> "shape", kind |-> "side",
                 x1 |-> SOf(xScale(dom, centerPoint.x)), y1 |-> SOf(yScale(dom, centerPoint.y)),
                 x2 |-> xScaleS(dom, from.x), y2 |-> yScaleS(dom, from.y)],
                [group |-> "shape", kind |-> "side",
                 x1 |-> SOf(xScale(dom, centerPoint.x)), y1 |-> SOf(yScale(dom, centerPoint.y)),
                 x2 |-> xScaleS(dom, to.x), y2 |-> yScaleS(dom, to.y)] >>
        ELSE << >>)

\* the dot on an anchor point that is not hidden (lines 1450-1470)
ArcEnd(dom, point) ==
  IF point.visible # FALSE
    THEN << [group |-> "shape", kind |-> "arcend",
             cx |-> xScale(dom, point.x), cy |-> yScale(dom, point.y)] >>
    ELSE << >>

\* the arc between two anchor points (lines 1369-1491): the radius is the
\* mean distance of the two from the centre, the sweep the sign of v1 x v2
AnchoredArc(dom, circle, centerPoint, startPointObj, endPointObj, v1, v2) ==
  ArcPath(dom, circle, centerPoint,
          [x |-> SOf(startPointObj.x), y |-> SOf(startPointObj.y)],
          [x |-> SOf(endPointObj.x), y |-> SOf(endPointObj.y)],
          RSub(xScale(dom, RAdd(centerPoint.x,
                 RDiv(RAdd(Sqrt(RAdd(RMul(v1.x, v1.x), RMul(v1.y, v1.y))),
                           Sqrt(RAdd(RMul(v2.x, v2.x), RMul(v2.y, v2.y)))), R(2)))),
               xScale(dom, centerPoint.x)),
          IF Abs(WrapHalfTurn(RayAngle(v2) - RayAngle(v1))) > 180 THEN 1 ELSE 0,
          IF RLt(R(0), RSub(RMul(v1.x, v2.y), RMul(v1.y, v2.x))) THEN 0 ELSE 1,
          ArcEnd(dom, startPointObj) \o ArcEnd(dom, endPointObj))

\* the arc between two angles (lines 1492-1561); a missing angle makes
\* angleDiff NaN, and both flags 0
NumericArc(dom, circle, centerPoint) ==
  ArcPath(dom, circle, centerPoint,
          OnCircle(centerPoint, circle.radius, AngleOr0(circle.startAngle)),
          OnCircle(centerPoint, circle.radius, AngleOr0(circle.endAngle)),
          RSub(xScale(dom, RAdd(centerPoint.x, circle.radius)), xScale(dom, centerPoint.x)),
          IF /\ circle.startAngle # Undef /\ circle.endAngle # Undef
             /\ Abs(circle.endAngle.n - circle.startAngle.n) > 180 THEN 1 ELSE 0,
          IF /\ circle.startAngle # Undef /\ circle.endAngle # Undef
             /\ circle.endAngle.n - circle.startAngle.n > 0 THEN 1 ELSE 0,
          << >>)

\* midAngleRad of the name label (lines 1564-1566)
midAngle(circle, centerPoint, startPointObj, endPointObj) ==
  IF startPointObj # Undef /\ endPointObj # Undef
    THEN (RayAngle(RayOf(centerPoint, startPointObj))
          + RayAngle(RayOf(centerPoint, endPointObj))) \div 2
    ELSE (AngleOr0(circle.startAngle) + AngleOr0(circle.endAngle)) \div 2

\* the arc or sector and its name label (lines 1346-1582)
DrawArc(dom, v, circle, centerPoint, startPointObj, endPointObj) ==
  (IF startPointObj # Undef /\ endPointObj # Undef
     THEN AnchoredArc(dom, circle, centerPoint, startPointObj, endPointObj,
                      RayOf(centerPoint, startPointObj), RayOf(centerPoint, endPointObj))
     ELSE NumericArc(dom, circle, centerPoint))
  \o << CHOOSE r \in {NonFlippedTextS(dom, v, at.x, at.y, "sector") :
                       at \in {OnCircle(centerPoint, RMul(circle.radius, Q(7, 10)),
                                        midAngle(circle, centerPoint, startPointObj,
                                                 endPointObj))}} : TRUE >>

\* the dashed radius and its value (lines 1594-1613)
RadiusLine(dom, v, circle, centerPoint, radiusEnd) ==
  << [group |-> "shape", kind |-> "radius",
      x1 |-> SOf(xScale(dom, centerPoint.x)), y1 |-> SOf(yScale(dom, centerPoint.y)),
      x2 |-> xScaleS(dom, radiusEnd.x), y2 |-> yScaleS(dom, radiusEnd.y)],
     NonFlippedTextS(dom, v,
       STimes(Q(1, 2), SAdd(SOf(centerPoint.x), radiusEnd.x)),
       SSub(STimes(Q(1, 2), SAdd(SOf(centerPoint.y), radiusEnd.y)), SOf(Q(2, 10))),
       formatNumber(circle.radius)) >>

\* control = mid + perp * arcHeight, with dir = (radiusEnd - centre) / radius,
\* perp = (dirY, -dirX) and arcHeight = radius * 0.15; 0 / 0 when radius = 0
RadiusControl(circle, centerPoint, radiusEnd) ==
  IF circle.radius = R(0) THEN [x |-> NaN, y |-> NaN]
  ELSE [x |-> SAdd(STimes(Q(1, 2), SAdd(SOf(centerPoint.x), radiusEnd.x)),
                   STimes(Q(15, 100), SSub(radiusEnd.y, SOf(centerPoint.y)))),
        y |-> SSub(STimes(Q(1, 2), SAdd(SOf(centerPoint.y), radiusEnd.y)),
                   STimes(Q(15, 100), SSub(radiusEnd.x, SOf(centerPoint.x))))]

\* the radius drawn as an arc and its value (lines 1616-1653)
RadiusArc(dom, v, circle, centerPoint, radiusEnd, control) ==
  << [group |-> "shape", kind |-> "radiusarc",
      x1 |-> SOf(xScale(dom, centerPoint.x)), y1 |-> SOf(yScale(dom, centerPoint.y)),
      cx |-> IF control.x = NaN THEN NaN ELSE xScaleS(dom, control.x),
      cy |-> IF control.x = NaN THEN NaN ELSE yScaleS(dom, control.y),
      x2 |-> xScaleS(dom, radiusEnd.x), y2 |-> yScaleS(dom, radiusEnd.y)],
     IF control.x = NaN
       THEN [group |-> "shape", kind |-> "text", text |-> formatNumber(circle.radius),
             transform |-> createNonFlippedText(NaN, NaN, v.flipX, v.flipY, v.rotation)]
       ELSE NonFlippedTextS(dom, v, control.x, SSub(control.y, SOf(Q(2, 10))),
                            formatNumber(circle.radius)) >>

\* if (circle.showRadius || circle.showRadiusArc) { ... } (lines 1585-1655)
DrawRadius(dom, v, circle, centerPoint, radiusEnd) ==
  (IF circle.showRadius THEN RadiusLine(dom, v, circle, centerPoint, radiusEnd) ELSE << >>)
  \o (IF circle.showRadiusArc
        THEN RadiusArc(dom, v, circle, centerPoint, radiusEnd,
                       RadiusControl(circle, centerPoint, radiusEnd))
        ELSE << >>)

\* if (centerPoint) { ... }
DrawCircle(dom, v, circle, centerPoint, startPointObj, endPointObj) ==
  IF centerPoint = Undef THEN << >>
  ELSE (IF isFullCircle(circle)
          THEN << [group |-> "shape", kind |-> "circle",
                   cx |-> xScale(dom, centerPoint.x), cy |-> yScale(dom, centerPoint.y),
                   r |-> RSub(xScale(dom, RAdd(centerPoint.x, circle.radius)),
                              xScale(dom, centerPoint.x))] >>
          ELSE DrawArc(dom, v, circle, centerPoint, startPointObj, endPointObj))
       \o (IF circle.showRadius \/ circle.showRadiusArc
             THEN DrawRadius(dom, v, circle, centerPoint,
                    OnCircle(centerPoint, circle.radius,
                      IF isFullCircle(circle) THEN 0
                      ELSE (AngleOr0(circle.startAngle) + AngleOr0(circle.endAngle)) \div 2))
             ELSE << >>)

\* circle.startPoint ? points.find(p => p.label === circle.startPoint) : null
Anchor(points, label) == IF label = "" THEN Undef ELSE FindPoint(points, label)

RECURSIVE DrawCircles(_, _, _, _)
DrawCircles(dom, v, points, circles) ==
  IF circles = << >> THEN << >>
  ELSE DrawCircle(dom, v, circles[1], FindPoint(points, circles[1].center),
                  Anchor(points, circles[1].startPoint), Anchor(points, circles[1].endPoint))
       \o DrawCircles(dom, v, points, Tail(circles))

\* RenderLayers with the points drawn before the lines.
RenderLayers_PointsFirst(scene, v, dom, back, curves) ==
  IF curves.threw
    THEN [status |-> "error", prims |-> back \o curves.prims]
    ELSE [status |-> "ok",
          prims |-> back \o curves.prims
                    \o DrawPoints(dom, v, scene.points, 1)
                    \o DrawLines(dom, v, scene.points, scene.lines)
                    \o DrawAngles(dom, v, scene.points, scene.angles)
                    \o DrawCircles(dom, v, scene.points, scene.circles)]

\* The layers after the curves: drawn only when no curve pass threw.
RenderLayers(scene, v, dom, back, curves) ==
  IF curves.threw
    THEN [status |-> "error", prims |-> back \o curves.prims]
    ELSE [status |-> "ok",
          prims |-> back \o curves.prims
                    \o DrawLines(dom, v, scene.points, scene.lines)
                    \o DrawAngles(dom, v, scene.points, scene.angles)
                    \o DrawCircles(dom, v, scene.points, scene.circles)
                    \o DrawPoints(dom, v, scene.points, 1)]

RenderIn(scene, v, dom) ==
  RenderLayers(scene, v, dom, DrawGrid(dom, v) \o DrawAxes(scene),
               DrawCurves(dom, scene.curves))

Render(scene, v) ==
  IF ~BoundsLoopsEnd(scene)
    THEN [status |-> "hang", prims |-> << >>]
    ELSE CHOOSE r \in {RenderIn(scene, v, dom) : dom \in {DomainOf(scene)}} : TRUE

(***************************************************************************)
(* View handlers (zoom, pan, wheel, flip, rotate).                         *)
(***************************************************************************)
\* Pointer positions (clientX, clientY) of mouse events on the canvas container.
ClientPositions == { [x |-> 0, y |-> 0], [x |-> 10, y |-> 5] }

\* Largest |panOffset.x| explored.
MaxPan == 10

SceneUnchanged == UNCHANGED <<data, gesture, edits, loop>>

\* handleZoomIn without the upper clamp.
handleZoomIn_NoClamp ==
  /\ zoomLevel' = RAdd(zoomLevel, Q(2, 10))
  /\ UNCHANGED <<showGrid, flipX, flipY, rotation, panOffset, isDragging, dragStart, rendered>>
  /\ SceneUnchanged
  /\ PageUnchanged

\* setZoomLevel(prev => Math.min(prev + 0.2, 3))
handleZoomIn ==
  /\ zoomLevel' = RMin(RAdd(zoomLevel, Q(2, 10)), R(3))
  /\ UNCHANGED <<showGrid, flipX, flipY, rotation, panOffset, isDragging, dragStart, rendered>>
  /\ SceneUnchanged
  /\ PageUnchanged

\* setZoomLevel(prev => Math.max(prev - 0.2, 0.5))
handleZoomOut ==
  /\ zoomLevel' = RMax(RSub(zoomLevel, Q(2, 10)), Q(5, 10))
  /\ UNCHANGED <<showGrid, flipX, flipY, rotation, panOffset, isDragging, dragStart, rendered>>
  /\ SceneUnchanged
  /\ PageUnchanged

\* handleResetZoom leaving the rotation as it is.
handleResetZoom_KeepsRotation ==
  /\ zoomLevel' = R(1)
  /\ panOffset' = [x |-> 0, y |-> 0]
  /\ UNCHANGED <<showGrid, flipX, flipY, rotation, isDragging, dragStart, rendered>>
  /\ SceneUnchanged
  /\ PageUnchanged

\* setZoomLevel(1); setPanOffset({x: 0, y: 0}); setRotation(0)
handleResetZoom ==
  /\ zoomLevel' = R(1)
  /\ panOffset' = [x |-> 0, y |-> 0]
  /\ rotation' = 0
  /\ UNCHANGED <<showGrid, flipX, flipY, isDragging, dragStart, rendered>>
  /\ SceneUnchanged
  /\ PageUnchanged

\* The handlers of a render close over that render's isDragging and dragStart.
\* A mouse-down, mouse-up or mouse-leave is a discrete event, rendered before
\* the next event is delivered; a mouse-move is a continuous event, whose
\* render is scheduled and may come after further mouse-moves.
Committed == [isDragging |-> isDragging, dragStart |-> dragStart]

\* The scheduled render of the component function.
Rerender ==
  /\ rendered # Committed
  /\ rendered' = Committed
  /\ UNCHANGED view
  /\ SceneUnchanged
  /\ PageUnchanged

\* handleMouseDown without the test of the button.
handleMouseDown_AnyButton(button, e) ==
  /\ isDragging' = TRUE
  /\ dragStart' = [x |-> e.x, y |-> e.y]
  /\ rendered' = [isDragging |-> TRUE, dragStart |-> [x |-> e.x, y |-> e.y]]
  /\ UNCHANGED <<showGrid, zoomLevel, flipX, flipY, rotation, panOffset>>
  /\ SceneUnchanged
  /\ PageUnchanged

\* onMouseDown of the canvas container; button 0 is the left button.
handleMouseDown(button, e) ==
  /\ IF button = 0
       THEN /\ isDragging' = TRUE
            /\ dragStart' = [x |-> e.x, y |-> e.y]
            /\ rendered' = [isDragging |-> TRUE, dragStart |-> [x |-> e.x, y |-> e.y]]
       ELSE UNCHANGED <<isDragging, dragStart, rendered>>
  /\ UNCHANGED <<showGrid, zoomLevel, flipX, flipY, rotation, panOffset>>
  /\ SceneUnchanged
  /\ PageUnchanged

\* dx, dy from the closure's dragStart; setPanOffset(prev => prev + (dx, dy));
\* setDragStart(pointer)
handleMouseMove(e) ==
  /\ IF rendered.isDragging
       THEN /\ panOffset' = [x |-> panOffset.x + (e.x - rendered.dragStart.x),
                             y |-> panOffset.y + (e.y - rendered.dragStart.y)]
            /\ dragStart' = [x |-> e.x, y |-> e.y]
       ELSE UNCHANGED <<panOffset, dragStart>>
  /\ UNCHANGED <<showGrid, zoomLevel, flipX, flipY, rotation, isDragging, rendered>>
  /\ SceneUnchanged
  /\ PageUnchanged

handleMouseUp ==
  /\ isDragging' = FALSE
  /\ rendered' = [isDragging |-> FALSE, dragStart |-> dragStart]
  /\ UNCHANGED <<showGrid, zoomLevel, flipX, flipY, rotation, panOffset, dragStart>>
  /\ SceneUnchanged
  /\ PageUnchanged

handleMouseLeave ==
  /\ IF rendered.isDragging
       THEN isDragging' = FALSE /\ rendered' = [isDragging |-> FALSE, dragStart |-> dragStart]
       ELSE UNCHANGED <<isDragging, rendered>>
  /\ UNCHANGED <<showGrid, zoomLevel, flipX, flipY, rotation, panOffset, dragStart>>
  /\ SceneUnchanged
  /\ PageUnchanged

\* onWheel: deltaY < 0 zooms in by 0.1, otherwise out by 0.1
handleWheel(deltaY) ==
  /\ zoomLevel' = IF deltaY < 0
                    THEN RMin(RAdd(zoomLevel, Q(1, 10)), R(3))
                    ELSE RMax(RSub(zoomLevel, Q(1, 10)), Q(5, 10))
  /\ UNCHANGED <<showGrid, flipX, flipY, rotation, panOffset, isDragging, dragStart, rendered>>
  /\ SceneUnchanged
  /\ PageUnchanged

\* toggleFlipX moving the canvas back to the centre as well.
toggleFlipX_ResetsPan ==
  /\ flipX' = ~flipX
  /\ panOffset' = [x |-> 0, y |-> 0]
  /\ UNCHANGED <<showGrid, zoomLevel, flipY, rotation, isDragging, dragStart, rendered>>
  /\ SceneUnchanged
  /\ PageUnchanged

\* onClick={() => setFlipX(!flipX)}
toggleFlipX ==
  /\ flipX' = ~flipX
  /\ UNCHANGED <<showGrid, zoomLevel, flipY, rotation, panOffset, isDragging, dragStart, rendered>>
  /\ SceneUnchanged
  /\ PageUnchanged

toggleFlipY ==
  /\ flipY' = ~flipY
  /\ UNCHANGED <<showGrid, zoomLevel, flipX, rotation, panOffset, isDragging, dragStart, rendered>>
  /\ SceneUnchanged
  /\ PageUnchanged

toggleShowGrid ==
  /\ showGrid' = ~showGrid
  /\ UNCHANGED <<zoomLevel, flipX, flipY, rotation, panOffset, isDragging, dragStart, rendered>>
  /\ SceneUnchanged
  /\ PageUnchanged

handleRotationChange(angle) ==
  /\ rotation' = angle
  /\ UNCHANGED <<showGrid, zoomLevel, flipX, flipY, panOffset, isDragging, dragStart, rendered>>
  /\ SceneUnchanged
  /\ PageUnchanged

\* onClick={() => handleRotationChange((rotation - 15) % 360)}
rotateLeft == handleRotationChange(JsRem(rotation - 15, 360))

\* onClick={() => handleRotationChange((rotation + 15) % 360)}
rotateRight == handleRotationChange(JsRem(rotation + 15, 360))

handleResetRotation == handleRotationChange(0)


(***************************************************************************)
(* Scene handlers.  Every edit hands a whole replacement scene to the      *)
(* host's onDataChange, which stores it (page.tsx handleDataChange).       *)
(***************************************************************************)
\* Largest number of points a scene is grown to.
MaxPoints == 4

\* Largest number of scene replacements explored from the initial scene.
MaxEdits == 3

\* String.fromCharCode(65 + n)
fromCharCode65(n) == <<"A", "B", "C", "D", "E", "F", "G", "H">>[n + 1]

handleDataChange(newData) ==
  /\ data' = newData
  /\ edits' = edits + 1

ViewUnchanged ==
  UNCHANGED <<showGrid, zoomLevel, flipX, flipY, rotation, panOffset, isDragging, dragStart,
              rendered>>

RemoveAt(xs, index) == [i \in 1..(Len(xs) - 1) |-> IF i < index THEN xs[i] ELSE xs[i + 1]]

\* const newPoint of handleAddPoint
newPoint(points) ==
  [label |-> fromCharCode65(Len(points)), x |-> R(0), y |-> R(0), visible |-> TRUE]

handleAddPoint ==
  /\ handleDataChange([data EXCEPT !.points = Append(data.points, newPoint(data.points))])
  /\ UNCHANGED <<gesture, loop>>
  /\ ViewUnchanged
  /\ PageUnchanged

\* The scene handleDeletePoint(index) passes to onDataChange (index from 1):
\* the point is removed and so is every line, angle and circle naming its label.
DeletePointScene(scene, index) ==
  [scene EXCEPT
     !.points = RemoveAt(scene.points, index),
     !.lines = SelectSeq(scene.lines,
                 LAMBDA line : /\ line.start # scene.points[index].label
                               /\ line.end # scene.points[index].label),
     !.angles = SelectSeq(scene.angles,
                  LAMBDA angle : /\ angle.vertex # scene.points[index].label
                                 /\ angle.start # scene.points[index].label
                                 /\ angle.end # scene.points[index].label),
     !.circles = SelectSeq(scene.circles,
                   LAMBDA circle : circle.center # scene.points[index].label)]

handleDeletePoint(index) ==
  /\ handleDataChange(DeletePointScene(data, index))
  /\ UNCHANGED <<gesture, loop>>
  /\ ViewUnchanged
  /\ PageUnchanged

\* handlePointChange(index, 'label', value): the label input takes any text.
handlePointChangeLabel(index, value) ==
  /\ handleDataChange([data EXCEPT !.points[index].label = value])
  /\ UNCHANGED <<gesture, loop>>
  /\ ViewUnchanged
  /\ PageUnchanged

\* handlePointVisibilityChange(index, visible)
handlePointVisibilityChange(index, visible) ==
  /\ handleDataChange([data EXCEPT !.points[index].visible = visible])
  /\ UNCHANGED <<gesture, loop>>
  /\ ViewUnchanged
  /\ PageUnchanged

\* handleLineChange(index, 'start' | 'end', value): free text inputs.
handleLineChangeEnd(index, field, value) ==
  /\ handleDataChange(IF field = "start"
                        THEN [data EXCEPT !.lines[index].start = value]
                        ELSE [data EXCEPT !.lines[index].end = value])
  /\ UNCHANGED <<gesture, loop>>
  /\ ViewUnchanged
  /\ PageUnchanged

\* handleLineChange(index, 'showLength' | 'showLengthArc', checked)
handleLineChangeFlag(index, field, value) ==
  /\ handleDataChange(IF field = "showLength"
                        THEN [data EXCEPT !.lines[index].showLength = value]
                        ELSE [data EXCEPT !.lines[index].showLengthArc = value])
  /\ UNCHANGED <<gesture, loop>>
  /\ ViewUnchanged
  /\ PageUnchanged

handleDeleteLine(index) ==
  /\ handleDataChange([data EXCEPT !.lines = RemoveAt(data.lines, index)])
  /\ UNCHANGED <<gesture, loop>>
  /\ ViewUnchanged
  /\ PageUnchanged

handleDeleteCurve(index) ==
  /\ handleDataChange([data EXCEPT !.curves = RemoveAt(data.curves, index)])
  /\ UNCHANGED <<gesture, loop>>
  /\ ViewUnchanged
  /\ PageUnchanged

\* The angle handleAngleChange stores for (field, value): a label, the parsed
\* number (NaN when the text is no number) or the checkbox state.
ChangedAngle(angle, field, value) ==
  CASE field = "vertex" -> [angle EXCEPT !.vertex = value]
    [] field = "start" -> [angle EXCEPT !.start = value]
    [] field = "end" -> [angle EXCEPT !.end = value]
    [] field = "value" /\ value # NaN -> [angle EXCEPT !.value = value]
    [] field = "showValue" -> [angle EXCEPT !.showValue = value]
    [] field = "rotation" -> [angle EXCEPT !.rotation = value]
    [] OTHER -> angle

handleAngleChange(index, field, value) ==
  /\ handleDataChange([data EXCEPT !.angles[index] = ChangedAngle(@, field, value)])
  /\ UNCHANGED <<gesture, loop>>
  /\ ViewUnchanged
  /\ PageUnchanged

\* The circle handleCircleChange stores for (field, value).  Setting an anchor
\* label that is not empty, or an angle, also sets showArc.
ChangedCircle(circle, field, value) ==
  CASE field = "center" -> [circle EXCEPT !.center = value]
    [] field = "startPoint" ->
         [circle EXCEPT !.startPoint = value, !.showArc = IF value # "" THEN TRUE ELSE @]
    [] field = "endPoint" ->
         [circle EXCEPT !.endPoint = value, !.showArc = IF value # "" THEN TRUE ELSE @]
    [] field = "radius" /\ value # NaN -> [circle EXCEPT !.radius = value]
    [] field = "startAngle" /\ value # NaN ->
         [circle EXCEPT !.startAngle = value, !.showArc = TRUE]
    [] field = "endAngle" /\ value # NaN ->
         [circle EXCEPT !.endAngle = value, !.showArc = TRUE]
    [] field = "showRadius" -> [circle EXCEPT !.showRadius = value]
    [] field = "showRadiusArc" -> [circle EXCEPT !.showRadiusArc = value]
    [] field = "showArc" -> [circle EXCEPT !.showArc = value]
    [] field = "fillArc" -> [circle EXCEPT !.fillArc = value]
    [] OTHER -> circle

handleCircleChange(index, field, value) ==
  /\ handleDataChange([data EXCEPT !.circles[index] = ChangedCircle(@, field, value)])
  /\ UNCHANGED <<gesture, loop>>
  /\ ViewUnchanged
  /\ PageUnchanged

\* const newCircle of handleAddCircle: centre and both anchors are the first point
newCircle(points) ==
  [center |-> points[1].label, radius |-> R(3), showRadius |-> TRUE,
   showRadiusArc |-> FALSE, showArc |-> TRUE, fillArc |-> TRUE,
   startAngle |-> Undef, endAngle |-> Undef,
   startPoint |-> points[1].label, endPoint |-> points[1].label]

handleAddCircle ==
  /\ Len(data.points) >= 1
  /\ handleDataChange([data EXCEPT !.circles = Append(data.circles, newCircle(data.points))])
  /\ UNCHANGED <<gesture, loop>>
  /\ ViewUnchanged
  /\ PageUnchanged

handleDeleteCircle(index) ==
  /\ handleDataChange([data EXCEPT !.circles = RemoveAt(data.circles, index)])
  /\ UNCHANGED <<gesture, loop>>
  /\ ViewUnchanged
  /\ PageUnchanged

(***************************************************************************)
(* Point drag (d3.drag on a point marker).  d3 keeps the listeners and the *)
(* element of the render in which the gesture started, so every drag event *)
(* of a gesture runs in that render's closure: its actualData and its      *)
(* xInverse / yInverse.                                                    *)
(***************************************************************************)
\* Pointer positions in SVG coordinates (clientX - svgRect.left, clientY - svgRect.top).
SvgPositions ==
  { [x |-> 400, y |-> 300], [x |-> 510, y |-> 190], [x |-> 180, y |-> 410],
    [x |-> 720, y |-> 80] }

\* The scene the 'drag' listener passes to onDataChange (idx from 1).
\* MovePoint emitting a scene rebuilt from its points only.
MovePoint_ClearsLines(scene, idx, newX, newY) ==
  [scene EXCEPT !.points[idx].x = newX, !.points[idx].y = newY, !.lines = << >>]

MovePoint(scene, idx, newX, newY) ==
  [scene EXCEPT !.points[idx].x = newX, !.points[idx].y = newY]

dragHandler(scene, idx, svgX, svgY) ==
  CHOOSE r \in {MovePoint(scene, idx, xInverse(dom, R(svgX)), yInverse(dom, R(svgY))) :
                 dom \in {DomainOf(scene)}} : TRUE

\* mousedown on the marker of point idx: markers exist for visible points only.
DragStart(idx) ==
  /\ ~gesture.active
  /\ data.points[idx].visible # FALSE
  /\ gesture' = [active |-> TRUE, idx |-> idx, scene |-> data]
  /\ UNCHANGED <<data, edits, loop>>
  /\ ViewUnchanged
  /\ PageUnchanged

\* mousemove during the gesture, at SVG position e
DragMove(e) ==
  /\ gesture.active
  /\ handleDataChange(dragHandler(gesture.scene, gesture.idx, e.x, e.y))
  /\ UNCHANGED <<gesture, loop>>
  /\ ViewUnchanged
  /\ PageUnchanged

\* mouseup ends the gesture
DragEnd ==
  /\ gesture.active
  /\ gesture' = NoGesture
  /\ UNCHANGED <<data, edits, loop>>
  /\ ViewUnchanged
  /\ PageUnchanged

(***************************************************************************)
(* Curve handlers and the scene the host page receives from its generator. *)
(***************************************************************************)
\* Largest number of curves a scene is grown to.
MaxCurves == 1

\* const newCurve of handleAddCurve
newCurve ==
  [type |-> "linear", coefficient |-> R(1), base |-> Undef,
   xRange |-> [min |-> R(0), max |-> R(10)], points |-> 100]

handleAddCurve ==
  /\ handleDataChange([data EXCEPT !.curves = Append(data.curves, newCurve)])
  /\ UNCHANGED gesture
  /\ ViewUnchanged
  /\ PageUnchanged

\* The curve handleCurveChange stores for (field, value); value is a type name
\* or the parsed number, NaN when the text is no number.
ChangedCurve(curve, field, value) ==
  CASE field = "type" -> [curve EXCEPT !.type = value]
    [] field \in {"base", "coefficient"} /\ value # NaN ->
         IF field = "base" THEN [curve EXCEPT !.base = value]
         ELSE [curve EXCEPT !.coefficient = value]
    [] field \in {"xMin", "xMax"} /\ value # NaN ->
         IF field = "xMin" THEN [curve EXCEPT !.xRange.min = value]
         ELSE [curve EXCEPT !.xRange.max = value]
    [] OTHER -> curve

handleCurveChange(index, field, value) ==
  /\ handleDataChange([data EXCEPT !.curves[index] = ChangedCurve(@, field, value)])
  /\ UNCHANGED gesture
  /\ ViewUnchanged
  /\ PageUnchanged

\* page.tsx handleGenerateGeometry: the generator's answer replaces the scene.
handleGenerateGeometry(scene) ==
  /\ data' = scene
  /\ edits' = edits + 1
  /\ UNCHANGED gesture
  /\ ViewUnchanged
  /\ PageUnchanged

\* A curve as the generator writes it.
Curve(type, min, max, points) ==
  [type |-> type, coefficient |-> R(1), base |-> R(2),
   xRange |-> [min |-> R(min), max |-> R(max)], points |-> points]

\* Numbers typed into the x-range inputs of a curve.
RangeInputs == {R(-2), R(0), R(2)}

(***************************************************************************)
(* The sampling loops of one run of the render effect, pass by pass: the   *)
(* bounds loop of every curve, then the drawing loop of every curve.       *)
(*   for (let x = min; x <= max; x += step) { ...; points.push([x, y]); }  *)
(* loop.pc is "test" before the loop test and "body" before a pass;        *)
(* "done" when the last loop was left and "threw" when the drawing code    *)
(* read lastPoint[0] of an empty sample list.                              *)
(***************************************************************************)
EnterLoop(scene, site, i) ==
  [pc |-> "test", site |-> site, i |-> i, x |-> scene.curves[i].xRange.min,
   passes |-> 0, kept |-> 0]

StartEffect(scene) ==
  IF scene.curves = << >> THEN [pc |-> "done"] ELSE EnterLoop(scene, "bounds", 1)

\* where control goes when the loop test fails
ExitLoop(scene, l) ==
  IF l.site = "bounds"
    THEN IF l.i < Len(scene.curves)
           THEN EnterLoop(scene, "bounds", l.i + 1)
           ELSE EnterLoop(scene, "draw", 1)
    ELSE IF l.kept = 0 THEN [pc |-> "threw"]
         ELSE IF l.i < Len(scene.curves)
                THEN EnterLoop(scene, "draw", l.i + 1)
                ELSE [pc |-> "done"]

LoopTestStep ==
  /\ loop.pc = "test"
  /\ loop' = IF LoopTest(data.curves[loop.i], loop.x)
               THEN [loop EXCEPT !.pc = "body"]
               ELSE ExitLoop(data, loop)
  /\ UNCHANGED <<data, gesture, edits>>
  /\ ViewUnchanged
  /\ PageUnchanged

\* One pass: continue or push, then x += step.  Passes are counted up to
\* MaxIter; the passes after that are not told apart.
LoopBodyStep ==
  /\ loop.pc = "body"
  /\ loop' = IF loop.passes < MaxIter
               THEN [loop EXCEPT !.pc = "test",
                                 !.x = RAdd(@, StepOf(data.curves[loop.i])),
                                 !.passes = @ + 1,
                                 !.kept = IF SkipSample(data.curves[loop.i], loop.x)
                                            THEN @ ELSE @ + 1]
               ELSE [loop EXCEPT !.pc = "test"]
  /\ UNCHANGED <<data, gesture, edits>>
  /\ ViewUnchanged
  /\ PageUnchanged

\* The effect has run to its end: event handlers run only between effects.
EffectDone == loop.pc = "done"

(***************************************************************************)
(* The host page (src/app/page.tsx): the analysis and generation requests. *)
(* A handler runs to its await; the rest of it runs when the fetch settles.*)
(***************************************************************************)
\* Largest number of fetch calls explored.
MaxRequests == 3

\* Texts typed into the request textarea or returned by the analysis.
TextInputs == {"", "text"}

\* onChange of the textarea: setUserText(e.target.value)
setUserText(value) ==
  /\ userText' = value
  /\ UNCHANGED <<imagePreview, analyzedText, isLoading, error, requests, sent>>
  /\ SceneUnchanged
  /\ ViewUnchanged

\* reader.onload of handleFileChange (and, with the same statements, of
\* handleDrop) up to the await: setImagePreview; setIsLoading(true); fetch
handleFileChange ==
  /\ imagePreview' = TRUE
  /\ isLoading' = TRUE
  /\ requests' = requests \cup {[id |-> sent + 1, url |-> "/api/analyze-problem"]}
  /\ sent' = sent + 1
  /\ UNCHANGED <<analyzedText, userText, error>>
  /\ SceneUnchanged
  /\ ViewUnchanged

\* ... after the await: the texts on success, setError in the catch, and
\* setIsLoading(false) in the finally
handleFileChange_settled(r, ok, content) ==
  /\ r \in requests
  /\ r.url = "/api/analyze-problem"
  /\ requests' = requests \ {r}
  /\ IF ok
       THEN analyzedText' = content /\ userText' = content /\ UNCHANGED error
       ELSE error' = "analyze" /\ UNCHANGED <<analyzedText, userText>>
  /\ isLoading' = FALSE
  /\ UNCHANGED <<imagePreview, sent>>
  /\ SceneUnchanged
  /\ ViewUnchanged

\* onClick of the generate button, which is disabled while isLoading, up to the
\* await: if (!userText) return; setIsLoading(true); setError(null); fetch
handleGenerateGeometry_fetch ==
  /\ ~isLoading
  /\ userText # ""
  /\ isLoading' = TRUE
  /\ error' = ""
  /\ requests' = requests \cup {[id |-> sent + 1, url |-> "/api/generate-geometry"]}
  /\ sent' = sent + 1
  /\ UNCHANGED <<imagePreview, analyzedText, userText>>
  /\ SceneUnchanged
  /\ ViewUnchanged

\* ... after the await: setGeometryData(data), or setError in the catch, and
\* setIsLoading(false) in the finally
handleGenerateGeometry_settled(r, ok, scene) ==
  /\ r \in requests
  /\ r.url = "/api/generate-geometry"
  /\ requests' = requests \ {r}
  /\ IF ok
       THEN data' = scene /\ edits' = edits + 1 /\ UNCHANGED error
       ELSE error' = "generate" /\ UNCHANGED <<data, edits>>
  /\ isLoading' = FALSE
  /\ UNCHANGED <<imagePreview, analyzedText, userText, sent>>
  /\ UNCHANGED <<gesture, loop>>
  /\ ViewUnchanged

(***************************************************************************)
(* Specifications.                                                         *)
(***************************************************************************)
InitView ==
  /\ showGrid = TRUE
  /\ zoomLevel = R(1)
  /\ flipX = FALSE
  /\ flipY = FALSE
  /\ rotation = 0
  /\ panOffset = [x |-> 0, y |-> 0]
  /\ isDragging = FALSE
  /\ dragStart = [x |-> 0, y |-> 0]
  /\ rendered = [isDragging |-> FALSE, dragStart |-> [x |-> 0, y |-> 0]]

\* The component as mounted by the page: default scene, initial view.
InitMounted ==
  /\ data = defaultData
  /\ InitView
  /\ gesture = NoGesture
  /\ edits = 0
  /\ loop = Idle
  /\ InitHome

\* The view controls on the mounted component (the scene stays the default one).
NextView ==
  \/ handleZoomIn
  \/ handleZoomOut
  \/ handleResetZoom
  \/ \E e \in ClientPositions :
       /\ rendered.isDragging =>
            /\ Abs(panOffset.x + (e.x - rendered.dragStart.x)) <= MaxPan
            /\ Abs(panOffset.y + (e.y - rendered.dragStart.y)) <= MaxPan
       /\ handleMouseMove(e)
  \/ Rerender
  \/ \E button \in {0, 2} : \E e \in ClientPositions : handleMouseDown(button, e)
  \/ handleMouseUp
  \/ handleMouseLeave
  \/ \E deltaY \in {-100, 100} : handleWheel(deltaY)
  \/ toggleFlipX
  \/ toggleFlipY
  \/ rotateLeft
  \/ rotateRight
  \/ handleResetRotation

SpecView == InitMounted /\ [][NextView]_vars

\* The view the render effect reads.
CurrentView ==
  [showGrid |-> showGrid, zoomLevel |-> zoomLevel, flipX |-> flipX, flipY |-> flipY,
   rotation |-> rotation, panOffset |-> panOffset]

\* What the SVG holds in the current state: the effect re-runs after every
\* change of the scene or of the view.
Drawn == Render(data, CurrentView)

\* An exception in the effect unmounts the component and a loop that never
\* ends blocks the page: no handler runs afterwards.
Alive == Drawn.status = "ok"

\* View states the controls reach (see SpecView), as starting points of an
\* editing session.
ViewInputs ==
  { [zoomLevel |-> R(1), flipX |-> FALSE, flipY |-> FALSE, rotation |-> 0,
     panOffset |-> [x |-> 0, y |-> 0]],
    [zoomLevel |-> Q(12, 10), flipX |-> FALSE, flipY |-> FALSE, rotation |-> 0,
     panOffset |-> [x |-> 0, y |-> 0]],
    [zoomLevel |-> R(1), flipX |-> TRUE, flipY |-> FALSE, rotation |-> 15,
     panOffset |-> [x |-> 0, y |-> 0]],
    [zoomLevel |-> R(1), flipX |-> FALSE, flipY |-> FALSE, rotation |-> 0,
     panOffset |-> [x |-> 10, y |-> 5]] }

\* An editing session on the points of the default scene: points are added,
\* deleted and dragged.
Init ==
  /\ data = defaultData
  /\ showGrid = TRUE
  /\ \E v \in ViewInputs :
       /\ zoomLevel = v.zoomLevel
       /\ flipX = v.flipX
       /\ flipY = v.flipY
       /\ rotation = v.rotation
       /\ panOffset = v.panOffset
  /\ isDragging = FALSE
  /\ dragStart = [x |-> 0, y |-> 0]
  /\ rendered = [isDragging |-> FALSE, dragStart |-> [x |-> 0, y |-> 0]]
  /\ gesture = NoGesture
  /\ edits = 0
  /\ loop = Idle
  /\ InitHome

Next ==
  \/ edits < MaxEdits /\ Len(data.points) < MaxPoints /\ handleAddPoint
  \/ \E i \in 1..Len(data.points) : edits < MaxEdits /\ handleDeletePoint(i)
  \/ \E i \in 1..Len(data.points) : DragStart(i)
  \/ \E e \in SvgPositions : edits < MaxEdits /\ DragMove(e)
  \/ DragEnd

Spec == Init /\ [][Next]_vars

\* Text typed into a label input.
LabelInputs == {"A", "Z"}

\* The default scene with a curve, as the generator may answer.
WithCurve(curve) == [defaultData EXCEPT !.curves = << curve >>]

\* Scenes the generator hands to the page.
SceneInputs ==
  { defaultData,
    [defaultData EXCEPT !.lines[3].end = "Z"],
    WithCurve(Curve("logarithm", 0, 2, 2)),
    WithCurve(Curve("quadratic", -2, 2, 2)) }

\* Largest number of scene replacements explored from a generated scene.
MaxRenderEdits == 2

\* A session on rendered scenes: the generator replaces the scene, points, lines
\* and curves are edited in the side panel and the grid is toggled.
InitRender ==
  /\ data \in SceneInputs
  /\ InitView
  /\ gesture = NoGesture
  /\ edits = 0
  /\ loop = Idle
  /\ InitHome

\* Handlers run while the component is alive; scene edits are counted.
CanEdit == edits < MaxRenderEdits /\ Alive

NextRender ==
  \/ CanEdit /\ \E scene \in SceneInputs : handleGenerateGeometry(scene) /\ UNCHANGED loop
  \/ CanEdit /\ \E i \in 1..Len(data.lines) : \E field \in {"start", "end"} :
       \E value \in LabelInputs : handleLineChangeEnd(i, field, value)
  \/ CanEdit /\ \E i \in 1..Len(data.lines) : \E field \in {"showLength", "showLengthArc"} :
       \E value \in BOOLEAN : handleLineChangeFlag(i, field, value)
  \/ CanEdit /\ \E i \in 1..Len(data.lines) : handleDeleteLine(i)
  \/ CanEdit /\ \E i \in 1..Len(data.points) : \E value \in LabelInputs :
       handlePointChangeLabel(i, value)
  \/ CanEdit /\ \E i \in 1..Len(data.points) : \E visible \in BOOLEAN :
       handlePointVisibilityChange(i, visible)
  \/ CanEdit /\ \E i \in 1..Len(data.curves) : \E field \in {"xMin", "xMax"} :
       \E value \in RangeInputs : handleCurveChange(i, field, value) /\ UNCHANGED loop
  \/ CanEdit /\ \E i \in 1..Len(data.curves) : \E value \in {"linear", "logarithm"} :
       handleCurveChange(i, "type", value) /\ UNCHANGED loop
  \/ CanEdit /\ \E i \in 1..Len(data.curves) : handleDeleteCurve(i)
  \/ Alive /\ toggleShowGrid

SpecRender == InitRender /\ [][NextRender]_vars

\* A session on the markers of the default scene: points are hidden and shown
\* in the side panel (also from the keyboard, while the mouse holds a marker)
\* and dragged.
NextHide ==
  \/ CanEdit /\ \E i \in 1..Len(data.points) : \E visible \in BOOLEAN :
       handlePointVisibilityChange(i, visible)
  \/ \E i \in 1..Len(data.points) : DragStart(i)
  \/ CanEdit /\ \E e \in SvgPositions : DragMove(e)
  \/ DragEnd

SpecHide == InitMounted /\ [][NextHide]_vars

\* Scenes with an angle and a circle, as the generator may answer: the points
\* O, P, Q, N lie on the axes, two units from O.
Angle(start, end, value) ==
  [vertex |-> "O", start |-> start, end |-> end, value |-> value, showValue |-> TRUE,
   rotation |-> Undef]

Circle(startAngle, endAngle, startPoint, endPoint, showArc, fillArc) ==
  [center |-> "O", radius |-> R(2), showRadius |-> TRUE, showRadiusArc |-> FALSE,
   showArc |-> showArc, fillArc |-> fillArc, startAngle |-> startAngle,
   endAngle |-> endAngle, startPoint |-> startPoint, endPoint |-> endPoint]

ShapeScene(angle, circle, curves) ==
  [points |-> << [label |-> "O", x |-> R(0), y |-> R(0), visible |-> TRUE],
                 [label |-> "P", x |-> R(2), y |-> R(0), visible |-> TRUE],
                 [label |-> "Q", x |-> R(0), y |-> R(2), visible |-> TRUE],
                 [label |-> "N", x |-> R(-2), y |-> R(0), visible |-> TRUE] >>,
   lines |-> << [start |-> "P", end |-> "Q", showLength |-> TRUE, length |-> R(3),
                 showLengthArc |-> FALSE] >>,
   angles |-> << angle >>,
   circles |-> << circle >>,
   curves |-> curves]

ShapeInputs ==
  { ShapeScene(Angle("P", "Q", R(90)), Circle(R(0), R(90), "", "", TRUE, FALSE), << >>),
    ShapeScene(Angle("N", "P", R(60)),
               [Circle(Undef, Undef, "P", "Q", TRUE, TRUE) EXCEPT !.showRadiusArc = TRUE],
               << >>),
    ShapeScene(Angle("Q", "N", Undef), Circle(R(0), R(90), "", "", FALSE, FALSE),
               << Curve("quadratic", -2, 2, 2) >>) }

\* Text typed into the anchor inputs of a circle and the end inputs of an angle.
AnchorInputs == {"", "P", "Z"}

\* Numbers typed into the value input of an angle.
ValueInputs == {R(60), Q(899, 10), R(90)}
RayInputs == {"O", "N", "Z"}

\* A session on scenes with angles and circles: the generator replaces the
\* scene, the angle and the circles are edited in the side panel, and the grid
\* and the horizontal flip are toggled.
InitShapes ==
  /\ data \in ShapeInputs
  /\ InitView
  /\ gesture = NoGesture
  /\ edits = 0
  /\ loop = Idle
  /\ InitHome

\* Largest number of edits explored from a generated scene with shapes.
MaxShapeEdits == 1

CanEditShape == edits < MaxShapeEdits /\ Alive

NextShapes ==
  \/ CanEditShape /\ \E scene \in ShapeInputs : handleGenerateGeometry(scene) /\ UNCHANGED loop
  \/ CanEditShape /\ \E i \in 1..Len(data.angles) : \E field \in {"start", "end"} :
       \E value \in RayInputs : handleAngleChange(i, field, value)
  \/ CanEditShape /\ \E i \in 1..Len(data.angles) : \E value \in ValueInputs :
       handleAngleChange(i, "value", value)
  \/ CanEditShape /\ \E i \in 1..Len(data.angles) : \E value \in BOOLEAN :
       handleAngleChange(i, "showValue", value)
  \/ CanEditShape /\ \E i \in 1..Len(data.circles) : \E field \in {"startPoint", "endPoint"} :
       \E value \in AnchorInputs : handleCircleChange(i, field, value)
  \/ CanEditShape /\ \E i \in 1..Len(data.circles) : \E field \in {"startAngle", "endAngle"} :
       \E value \in {R(0), R(180)} : handleCircleChange(i, field, value)
  \/ CanEditShape /\ \E i \in 1..Len(data.circles) : \E value \in {R(0), R(2)} :
       handleCircleChange(i, "radius", value)
  \/ CanEditShape /\ \E i \in 1..Len(data.circles) :
       \E field \in {"showRadius", "fillArc"} : \E value \in BOOLEAN :
         handleCircleChange(i, field, value)
  \/ CanEditShape /\ handleAddCircle
  \/ CanEditShape /\ \E i \in 1..Len(data.circles) : handleDeleteCircle(i)
  \/ CanEditShape /\ \E i \in 1..Len(data.points) : handleDeletePoint(i)
  \/ Alive /\ toggleShowGrid
  \/ Alive /\ toggleFlipX

SpecShapes == InitShapes /\ [][NextShapes]_vars

\* Curves the generator hands to the page, among them the degenerate ranges
\* and sample counts.
CurveInputs ==
  { Curve("linear", 0, 2, 3), Curve("linear", 2, 2, 3), Curve("linear", 2, 0, 3),
    Curve("linear", 0, 2, 0), Curve("linear", 0, 2, -1), Curve("logarithm", -2, 0, 2),
    [Curve("quadratic", 0, 2, 3) EXCEPT !.coefficient = R(2)] }

\* The render effect pass by pass: curves arrive from the generator or from
\* the add button, their x range is edited, and each change of the scene
\* starts the effect, whose loops JavaScript runs to their end before any
\* other handler.
InitCurve ==
  /\ data = defaultData
  /\ InitView
  /\ gesture = NoGesture
  /\ edits = 0
  /\ loop = StartEffect(defaultData)
  /\ InitHome

NextCurve ==
  \/ LoopTestStep
  \/ LoopBodyStep
  \/ /\ EffectDone /\ edits < MaxEdits /\ Len(data.curves) < MaxCurves
     /\ handleAddCurve /\ loop' = StartEffect(data')
  \/ \E curve \in CurveInputs :
       /\ EffectDone /\ edits < MaxEdits
       /\ handleGenerateGeometry(WithCurve(curve)) /\ loop' = StartEffect(data')
  \/ \E i \in 1..Len(data.curves) : \E field \in {"xMin", "xMax"} :
       \E value \in RangeInputs :
         /\ EffectDone /\ edits < MaxEdits
         /\ handleCurveChange(i, field, value) /\ loop' = StartEffect(data')

SpecCurve ==
  InitCurve /\ [][NextCurve]_vars /\ WF_vars(LoopTestStep) /\ WF_vars(LoopBodyStep)

\* The page: the user types, picks images and presses the generate button, and
\* the pending fetches settle in any order, each well or with an error.
NextPage ==
  \/ \E value \in TextInputs : setUserText(value)
  \/ sent < MaxRequests /\ handleFileChange
  \/ \E r \in requests : \E ok \in BOOLEAN : \E content \in TextInputs :
       handleFileChange_settled(r, ok, content)
  \/ sent < MaxRequests /\ handleGenerateGeometry_fetch
  \/ \E r \in requests : \E ok \in BOOLEAN : \E scene \in SceneInputs :
       handleGenerateGeometry_settled(r, ok, scene)

SpecPage == InitMounted /\ [][NextPage]_vars

(***************************************************************************)
(* Claims about the view state (SpecView).                                 *)
(***************************************************************************)
ZoomInRange(z) == RLe(Q(5, 10), z) /\ RLe(z, R(3))

\* z moved up by step, or to the limit 3 when z + step would pass it
SteppedUp(z, step, z2) ==
  IF RLe(RAdd(z, step), R(3)) THEN z2 = RAdd(z, step) ELSE z2 = R(3)

\* z moved down by step, or to the limit 0.5 when z - step would pass it
SteppedDown(z, step, z2) ==
  IF RLe(Q(5, 10), RSub(z, step)) THEN z2 = RSub(z, step) ELSE z2 = Q(5, 10)

\* C2: starting from zoom 1, zoomLevel stays in [0.5, 3.0] under zoom-in, zoom-out,
\* wheel and reset; a button press moves it by 0.2 and a wheel tick by 0.1, or to
\* the limit when the clamp applies.
C2_ZoomClamped ==
  [][ /\ ZoomInRange(zoomLevel) /\ ZoomInRange(zoomLevel')
      /\ handleZoomIn => SteppedUp(zoomLevel, Q(2, 10), zoomLevel')
      /\ handleZoomOut => SteppedDown(zoomLevel, Q(2, 10), zoomLevel')
      /\ handleWheel(-100) => SteppedUp(zoomLevel, Q(1, 10), zoomLevel')
      /\ handleWheel(100) => SteppedDown(zoomLevel, Q(1, 10), zoomLevel')
      /\ handleResetZoom => zoomLevel' = R(1) ]_vars

\* C2 witness: zooming in has reached the upper limit, where the clamp applies.
C2_Witness == zoomLevel = R(3)

\* C3: after any sequence of rotate-left, rotate-right and reset from rotation 0,
\* the rotation angle is a multiple of 15 in [0, 360).
C3_RotationWrapped == rotation \in 0..359 /\ rotation % 15 = 0

\* The shape group's transform in the current view.
ShapeTransform == shapeGroupTransform(panOffset, zoomLevel, flipX, flipY, rotation)

\* zoom times the identity, as the two columns of a linear map
UniformScale(z) == << <<SOf(z), SOf(R(0))>>, <<SOf(R(0)), SOf(z)>> >>

IsShapeText(prim) == prim.group = "shape" /\ prim.kind = "text"

\* C5: for every flipX, flipY and rotation, the shape group's transform composed
\* with the local transform of any text drawn in the shape layer has the linear
\* part zoom * identity: no label is mirrored or rotated on screen.
C5_LabelsUpright ==
  \A prim \in {Drawn.prims[k] : k \in 1..Len(Drawn.prims)} :
    IsShapeText(prim) =>
      LinearPart(ShapeTransform \o prim.transform) = UniformScale(zoomLevel)

CanvasCentre == SPoint(centerX, centerY)

\* C6: with pan = (0,0) the canvas centre is a fixed point of the grid-group
\* transform and of the shape-group transform, at every zoom, flip and rotation.
C6_CentreFixed ==
  panOffset = [x |-> 0, y |-> 0] =>
    /\ ApplyTransform(gridGroupTransform(panOffset, zoomLevel), CanvasCentre) = CanvasCentre
    /\ ApplyTransform(ShapeTransform, CanvasCentre) = CanvasCentre

\* C19: during a pan gesture, every mouse-move leaves panOffset at its value at
\* mouse-down plus the pointer's displacement since mouse-down, rendered or not
\* between the moves: a move to e changes panOffset by e less the previous
\* pointer position (the mouse-down position or that of the move before, which
\* is what dragStart holds).
C19_PanFollowsPointer ==
  [][ \A e \in ClientPositions :
        (isDragging /\ handleMouseMove(e)) =>
          /\ panOffset'.x - e.x = panOffset.x - dragStart.x
          /\ panOffset'.y - e.y = panOffset.y - dragStart.y ]_vars

\* C20: reset sets zoomLevel = 1, panOffset = (0,0) and rotation = 0 from any
\* reachable view state, and leaves the flips and the grid toggle alone.
C20_ResetRestoresView ==
  [][ handleResetZoom =>
        /\ zoomLevel' = R(1)
        /\ panOffset' = [x |-> 0, y |-> 0]
        /\ rotation' = 0
        /\ flipX' = flipX /\ flipY' = flipY /\ showGrid' = showGrid ]_vars

\* C20 witness: the view is back at zoom 1, no pan and no rotation in a session
\* that has flipped both axes and panned with the pointer at (10, 5).
C20_Witness ==
  /\ zoomLevel = R(1)
  /\ panOffset = [x |-> 0, y |-> 0]
  /\ rotation = 0
  /\ flipX /\ flipY
  /\ dragStart = [x |-> 10, y |-> 5]

\* A step of the reset button: zoom 1, no pan, no rotation, flips kept.
ResetStep ==
  /\ zoomLevel' = R(1)
  /\ panOffset' = [x |-> 0, y |-> 0]
  /\ rotation' = 0
  /\ UNCHANGED <<flipX, flipY>>

\* C21: a step that toggles a flip or changes the rotation leaves zoomLevel and
\* panOffset unchanged, and a step that changes zoomLevel or panOffset (zoom-in,
\* zoom-out, wheel, pan move) leaves flipX, flipY and rotation unchanged; the
\* reset button, which sets zoom, pan and rotation together, is the one exception.
C21_FlipRotateApartFromPanZoom ==
  [][\/ ResetStep
     \/ UNCHANGED <<flipX, flipY, rotation>>
     \/ UNCHANGED <<zoomLevel, panOffset>>]_vars

\* C21 witness: a session that has flipped, rotated, zoomed and panned.
C21_Witness ==
  /\ flipX /\ flipY
  /\ rotation # 0
  /\ zoomLevel # R(1)
  /\ panOffset # [x |-> 0, y |-> 0]

(***************************************************************************)
(* Claims about point editing and dragging (Spec).                         *)
(***************************************************************************)
\* What a drag event at e on point i of the scene `in` must hand to onDataChange.
DragFrame(in, i, e, out) ==
  /\ out.points[i].x = xInverse(DomainOf(in), R(e.x))
  /\ out.points[i].y = yInverse(DomainOf(in), R(e.y))
  /\ out.points[i].label = in.points[i].label
  /\ out.points[i].visible = in.points[i].visible
  /\ Len(out.points) = Len(in.points)
  /\ \A j \in 1..Len(in.points) : j # i => out.points[j] = in.points[j]
  /\ out.lines = in.lines
  /\ out.angles = in.angles
  /\ out.circles = in.circles
  /\ out.curves = in.curves

\* C1: a drag event at SVG position e on the marker of point i hands onDataChange
\* a scene whose point i has x = xInverse(e.x) and y = yInverse(e.y) with its label
\* and visible flag unchanged, whose other points are unchanged, and whose lines,
\* angles, circles and curves are those of the scene the listener was drawn from.
C1_DragUpdatesOnePoint ==
  [][ \A e \in SvgPositions :
        DragMove(e) => DragFrame(gesture.scene, gesture.idx, e, data') ]_vars

\* C1 witness: a drag event of the gesture in progress has moved its point.
C1_Witness ==
  /\ gesture.active
  /\ data # gesture.scene
  /\ \E e \in SvgPositions : data = dragHandler(gesture.scene, gesture.idx, e.x, e.y)

IdentityView ==
  /\ zoomLevel = R(1)
  /\ panOffset = [x |-> 0, y |-> 0]
  /\ ~flipX
  /\ ~flipY
  /\ rotation = 0

\* Where the shape layer of the render of `scene` shows the data position (x, y).
OnScreen(scene, x, y) ==
  CHOOSE r \in {ApplyTransform(ShapeTransform, SPoint(xScale(dom, x), yScale(dom, y))) :
                 dom \in {DomainOf(scene)}} : TRUE

\* C4: under a view transform that is not the identity, the coordinates a drag
\* event emits map forward (coordinate mapping, then the shape group's
\* transform) to the pointer position.
C4_DragInvertsView ==
  [][ \A e \in SvgPositions :
        (DragMove(e) /\ ~IdentityView) =>
          OnScreen(gesture.scene, data'.points[gesture.idx].x, data'.points[gesture.idx].y)
            = SPoint(R(e.x), R(e.y)) ]_vars

PairwiseDistinct(points) ==
  \A i, j \in 1..Len(points) : i # j => points[i].label # points[j].label

\* C7: from the default scene, whose labels are pairwise distinct, the point
\* labels stay pairwise distinct under add-point and delete-point.
C7_LabelsDistinct == PairwiseDistinct(data.points)

\* The markers of the render, by the index they carry (data-index, from 0).
MarkerIndices == {Drawn.prims[k].index : k \in {j \in 1..Len(Drawn.prims) :
                                                  Drawn.prims[j].kind = "marker"}}

\* Point i of the scene is hidden and no shown point carries its label.
HiddenLabel(i) ==
  /\ data.points[i].visible = FALSE
  /\ \A j \in 1..Len(data.points) :
       data.points[j].visible # FALSE => data.points[j].label # data.points[i].label

\* C12: a point with visible = false has no marker (the element carrying the
\* drag handle) and no label in the render, and no drag event changes the
\* coordinates of a point that is hidden when the event arrives.
C12_HiddenPointInert ==
  [][ /\ \A i \in 1..Len(data.points) :
           /\ data.points[i].visible = FALSE => (i - 1) \notin MarkerIndices
           /\ HiddenLabel(i) =>
                \A k \in 1..Len(Drawn.prims) :
                  Drawn.prims[k].kind = "text" => Drawn.prims[k].text # data.points[i].label
      /\ \A e \in SvgPositions :
           DragMove(e) =>
             \A i \in 1..Len(data.points) :
               data.points[i].visible = FALSE =>
                 /\ data'.points[i].x = data.points[i].x
                 /\ data'.points[i].y = data.points[i].y ]_vars

\* Pixels per data unit of a scale: |scale(1) - scale(0)|.
PixelsPerUnit(at0, at1) == IF RLt(at1, at0) THEN RSub(at0, at1) ELSE RSub(at1, at0)

\* C22: whatever the bounds of the scene, the forward scales give the same number
\* of pixels per data unit on both axes: |xScale(1) - xScale(0)| =
\* |yScale(1) - yScale(0)|.
C22_SquareGrid ==
  \A dom \in {DomainOf(data)} :
    PixelsPerUnit(xScale(dom, R(0)), xScale(dom, R(1)))
      = PixelsPerUnit(yScale(dom, R(0)), yScale(dom, R(1)))

\* C22 witness: a drag has spread the points over more than the least span of 20
\* units, so that the domain follows the bounds of the scene.
C22_Witness ==
  /\ edits > 0
  /\ \A b \in {Bounds(data)} : RLt(R(20), maxRange(b))

(***************************************************************************)
(* Claims about the sampling loops (SpecCurve).                            *)
(***************************************************************************)
\* C8: for every curve, also one with min = max, min > max or a non-positive
\* sample count, the sampling loops of the effect end.
C8_LoopsTerminate == (loop.pc = "test") ~> (loop.pc \in {"done", "threw"})

\* Only a loop whose x never grows is followed up to MaxIter passes.
SaturatedLoopsAreStuck ==
  (loop.pc \in {"test", "body"} /\ loop.passes = MaxIter) =>
    RLe(StepOf(data.curves[loop.i]), R(0)) /\ LoopTest(data.curves[loop.i], loop.x)

\* C17: the sampling that the bounds and the drawing use yields, for a curve
\* with type quadratic, coefficient 2, xRange [0, 2] and points 3, exactly the
\* three samples (0,0), (1,2), (2,8).
C17_QuadraticSamples ==
  \A i \in 1..Len(data.curves) :
    (/\ data.curves[i].type = "quadratic"
     /\ data.curves[i].coefficient = R(2)
     /\ data.curves[i].xRange = [min |-> R(0), max |-> R(2)]
     /\ data.curves[i].points = 3) =>
      SampleCurve(data.curves[i]).pts = << <<R(0), R(0)>>, <<R(1), R(2)>>, <<R(2), R(8)>> >>

(***************************************************************************)
(* Claims about the rendered scene (SpecRender).                           *)
(***************************************************************************)
Samples(curve) == SampleCurve(curve).pts

\* The line and point layers of the current scene, as drawn after the curves.
LinesAndPoints ==
  CHOOSE r \in {DrawLines(dom, CurrentView, data.points, data.lines)
                 \o DrawPoints(dom, CurrentView, data.points, 1) :
                 dom \in {DomainOf(data)}} : TRUE

IsSuffix(tail, xs) ==
  /\ Len(tail) <= Len(xs)
  /\ SubSeq(xs, Len(xs) - Len(tail) + 1, Len(xs)) = tail

\* C9: a logarithm curve over a range min < max contributes no sample with
\* x <= 0, and also when every sample of it is dropped the render completes and
\* draws the lines and points of the scene.
C9_LogDropsSilently ==
  \A i \in 1..Len(data.curves) :
    (/\ data.curves[i].type = "logarithm"
     /\ RLt(data.curves[i].xRange.min, data.curves[i].xRange.max)
     /\ BoundsLoopsEnd(data)) =>
      /\ \A k \in 1..Len(Samples(data.curves[i])) :
           RLt(R(0), Samples(data.curves[i])[k][1])
      /\ (\A j \in 1..Len(data.curves) : j # i => Samples(data.curves[j]) # << >>) =>
           /\ Drawn.status = "ok"
           /\ IsSuffix(LinesAndPoints, Drawn.prims)

Resolves(points, label) == \E i \in 1..Len(points) : points[i].label = label

\* Line j of the scene names a start or end label that no point carries.
Dangling(scene, j) ==
  \/ ~Resolves(scene.points, scene.lines[j].start)
  \/ ~Resolves(scene.points, scene.lines[j].end)

WithoutLine(scene, j) == [scene EXCEPT !.lines = RemoveAt(scene.lines, j)]

\* C10: a line whose start or end label matches no point draws nothing (no
\* segment, no length text, no arc) and raises no error, and the render is the
\* one of the scene without that line.
C10_DanglingLineSkipped ==
  \A j \in 1..Len(data.lines) :
    Dangling(data, j) =>
      /\ \A dom \in {DomainOf(data)} :
           DrawLine(dom, CurrentView, data.points, data.lines[j]) = << >>
      /\ Drawn = Render(WithoutLine(data, j), CurrentView)

\* C10 witness: a scene edited into holding a dangling line is rendered, with the
\* other lines and the points drawn.
C10_Witness ==
  /\ edits > 0
  /\ \E j \in 1..Len(data.lines) : Dangling(data, j)
  /\ Drawn.status = "ok"
  /\ \E k \in 1..Len(Drawn.prims) : Drawn.prims[k].kind = "line"

(***************************************************************************)
(* Claims about angles and circles (SpecShapes).                           *)
(***************************************************************************)
\* What circle i of the current scene draws.
CirclePrims(i) ==
  CHOOSE r \in {DrawCircle(dom, CurrentView, data.circles[i],
                           FindPoint(data.points, data.circles[i].center),
                           Anchor(data.points, data.circles[i].startPoint),
                           Anchor(data.points, data.circles[i].endPoint)) :
                 dom \in {DomainOf(data)}} : TRUE

\* Circle i names a startPoint or endPoint that no point carries.
DanglingAnchor(scene, i) ==
  \/ scene.circles[i].startPoint # "" /\ ~Resolves(scene.points, scene.circles[i].startPoint)
  \/ scene.circles[i].endPoint # "" /\ ~Resolves(scene.points, scene.circles[i].endPoint)

\* C11: a circle whose startPoint or endPoint names a label that matches no point
\* draws nothing (no circle, arc, sector or radius), and the render raises no
\* error.
C11_DanglingCircleSkipped ==
  \A i \in 1..Len(data.circles) :
    DanglingAnchor(data, i) => CirclePrims(i) = << >> /\ Drawn.status = "ok"


\* A primitive one of whose coordinates is NaN.
NaNIn(prim) ==
  CASE prim.kind \in {"lengtharc", "radiusarc"} -> prim.cx = NaN \/ prim.cy = NaN
    [] prim.kind = "text" ->
         /\ prim.transform # << >>
         /\ (prim.transform[1].x = NaN \/ prim.transform[1].y = NaN)
    [] prim.kind = "rightangle" ->
         \E p \in {prim.p1, prim.p2, prim.p3} : p.x = NaN \/ p.y = NaN
    [] prim.kind = "rightanglesquare" -> prim.x = NaN \/ prim.y = NaN
    [] OTHER -> FALSE

\* C13: no primitive of a render has a NaN coordinate, also when an angle's start
\* or end point coincides with its vertex, when a circle of radius 0 has
\* showRadiusArc set, or when a line of length 0 has showLengthArc set.
C13_NoNaNCoordinate ==
  \A k \in 1..Len(Drawn.prims) : ~NaNIn(Drawn.prims[k])


\* Circle i has both angles, or an anchor point.
HasArcData(circle) ==
  \/ circle.startAngle # Undef /\ circle.endAngle # Undef
  \/ circle.startPoint # ""
  \/ circle.endPoint # ""

DrawnAsFullCircle(i) == CirclePrims(i)[1].kind = "circle"

\* C14: a circle whose centre resolves is drawn as a full circle if and only if
\* it has neither both angles nor an anchor point, whatever its showArc.
C14_FullCircleIffNoArcData ==
  \A i \in 1..Len(data.circles) :
    Resolves(data.points, data.circles[i].center) =>
      (DrawnAsFullCircle(i) <=> ~HasArcData(data.circles[i]))


\* The point lies at centre + radius * (cos deg, sin deg) of the circle.
AtAngle(point, circle, centerPoint, deg) ==
  /\ SOf(point.x) = OnCircle(centerPoint, circle.radius, deg).x
  /\ SOf(point.y) = OnCircle(centerPoint, circle.radius, deg).y

\* The arc path circle draws in the current scene and view: its first primitive.
ArcPathOf(circle) ==
  CHOOSE r \in {DrawCircle(dom, CurrentView, circle, FindPoint(data.points, circle.center),
                           Anchor(data.points, circle.startPoint),
                           Anchor(data.points, circle.endPoint))[1] :
                 dom \in {DomainOf(data)}} : TRUE

\* Circle i has both angles less than a half turn apart, no anchor point, and
\* is drawn as an arc.
NumericCircle(i) ==
  /\ Resolves(data.points, data.circles[i].center)
  /\ data.circles[i].showArc
  /\ data.circles[i].startPoint = "" /\ data.circles[i].endPoint = ""
  /\ data.circles[i].startAngle # Undef /\ data.circles[i].endAngle # Undef
  /\ Abs(data.circles[i].endAngle.n - data.circles[i].startAngle.n) < 180

\* C15: the arc path of a circle with angles a and b less than a half turn apart
\* and no anchor points (end points, radius, large-arc flag, sweep flag) is the
\* path of the same circle anchored at the points of the scene that lie at
\* centre + radius * (cos a, sin a) and centre + radius * (cos b, sin b).
C15_NumericArcIsAnchoredArc ==
  \A i \in 1..Len(data.circles) : \A p, q \in 1..Len(data.points) :
    (/\ NumericCircle(i)
     /\ AtAngle(data.points[p], data.circles[i],
                FindPoint(data.points, data.circles[i].center), data.circles[i].startAngle.n)
     /\ AtAngle(data.points[q], data.circles[i],
                FindPoint(data.points, data.circles[i].center), data.circles[i].endAngle.n)) =>
      ArcPathOf(data.circles[i])
        = ArcPathOf([data.circles[i] EXCEPT !.startPoint = data.points[p].label,
                                            !.endPoint = data.points[q].label])


\* A sweep in degrees brought into (-180, 180].
NormalizedSweep(d) == IF d > 180 THEN d - 360 ELSE IF d <= -180 THEN d + 360 ELSE d

\* The start and end vectors of angle i of the current scene.
StartVector(i) ==
  RayOf(FindPoint(data.points, data.angles[i].vertex),
        FindPoint(data.points, data.angles[i].start))
EndVector(i) ==
  RayOf(FindPoint(data.points, data.angles[i].vertex),
        FindPoint(data.points, data.angles[i].end))

AngleResolves(i) ==
  /\ Resolves(data.points, data.angles[i].vertex)
  /\ Resolves(data.points, data.angles[i].start)
  /\ Resolves(data.points, data.angles[i].end)

\* C16: for an angle whose three points resolve, the displayed end angle is
\* startAngle + value when atan2(v2) - atan2(v1), brought into (-180, 180], is
\* positive, and startAngle - value otherwise; a raw sweep of -180 counts as +180.
C16_SweepFollowsNormalizedSign ==
  \A i \in 1..Len(data.angles) :
    (AngleResolves(i) /\ data.angles[i].value # Undef) =>
      actualEndAngle(data.angles[i], StartVector(i), EndVector(i))
        = RAdd(R(RayAngle(StartVector(i))),
               IF NormalizedSweep(RayAngle(EndVector(i)) - RayAngle(StartVector(i))) > 0
                 THEN data.angles[i].value ELSE RNeg(data.angles[i].value))


\* The order of the elements in the document: gridGroup is appended to the svg
\* before shapeGroup, and each group keeps the order of its appends.
InGridGroup(prim) == prim.group = "grid"
InShapeGroup(prim) == prim.group = "shape"
DocumentOrder(prims) == SelectSeq(prims, InGridGroup) \o SelectSeq(prims, InShapeGroup)

\* What each layer draws of the current scene: grid and background, axes,
\* curves, lines, angle markers, circles, points.
Layers ==
  CHOOSE r \in {<< DrawGrid(dom, CurrentView), DrawAxes(data),
                   DrawCurves(dom, data.curves).prims,
                   DrawLines(dom, CurrentView, data.points, data.lines),
                   DrawAngles(dom, CurrentView, data.points, data.angles),
                   DrawCircles(dom, CurrentView, data.points, data.circles),
                   DrawPoints(dom, CurrentView, data.points, 1) >> :
                 dom \in {DomainOf(data)}} : TRUE

\* The layer of an element that is no text, by its kind; 0 for a text.
LayerOfKind(kind) ==
  CASE kind \in {"background", "gridlines", "originlines"} -> 1
    [] kind = "axis" -> 2
    [] kind = "curve" -> 3
    [] kind \in {"line", "lengtharc"} -> 4
    [] kind \in {"rightangle", "rightanglesquare", "anglearc"} -> 5
    [] kind \in {"circle", "sector", "arc", "arcend", "side", "radius", "radiusarc"} -> 6
    [] kind = "marker" -> 7
    [] OTHER -> 0

InLayerOrder(doc) ==
  \A j, k \in 1..Len(doc) :
    (j < k /\ LayerOfKind(doc[j].kind) # 0 /\ LayerOfKind(doc[k].kind) # 0) =>
      LayerOfKind(doc[j].kind) <= LayerOfKind(doc[k].kind)

\* C18: in every completed render the elements stand in the document in the
\* order grid and background, axes, curves, lines with their length annotations,
\* angle markers, circles with their radius annotations, points with labels: no
\* element of an earlier layer is above one of a later layer.
C18_LayersInOrder ==
  \A drawn \in {Drawn} : \A ls \in {Layers} :
    drawn.status = "ok" =>
      \A doc \in {DocumentOrder(drawn.prims)} :
        /\ doc = ls[1] \o ls[2] \o ls[3] \o ls[4] \o ls[5] \o ls[6] \o ls[7]
        /\ InLayerOrder(doc)

\* C18 witness: a completed render after an edit in which each of the seven
\* layers has drawn something.
C18_Witness ==
  /\ edits > 0
  /\ Drawn.status = "ok"
  /\ \A ls \in {Layers} : \A l \in 1..7 : ls[l] # << >>


\* What angle i of the current scene draws.
AnglePrims(i) ==
  CHOOSE r \in {DrawAngle(dom, CurrentView, data.angles[i],
                          FindPoint(data.points, data.angles[i].vertex),
                          FindPoint(data.points, data.angles[i].start),
                          FindPoint(data.points, data.angles[i].end)) :
                 dom \in {DomainOf(data)}} : TRUE

HasKind(prims, kind) == \E k \in 1..Len(prims) : prims[k].kind = kind

\* |value - 90| < 0.1 as numbers
WithinEpsilonOf90(value) ==
  /\ value # Undef
  /\ RLt(RSub(R(90), Q(1, 10)), value)
  /\ RLt(value, RAdd(R(90), Q(1, 10)))

\* C23: an angle with showValue whose points resolve draws the right-angle glyph
\* and no arc when its value is less than 0.1 away from 90 (so for 90), and an
\* arc and no glyph otherwise (so for 89.9).
C23_RightAngleThreshold ==
  \A i \in 1..Len(data.angles) :
    (AngleResolves(i) /\ data.angles[i].showValue) =>
      \A prims \in {AnglePrims(i)} :
        /\ HasKind(prims, "rightangle") <=> WithinEpsilonOf90(data.angles[i].value)
        /\ HasKind(prims, "anglearc") <=> ~WithinEpsilonOf90(data.angles[i].value)


(***************************************************************************)
(* Claims about scenes of points and lines (SpecRender).                   *)
(***************************************************************************)
\* The lines of the scene whose two labels resolve.
ResolvingLines == {j \in 1..Len(data.lines) : ~Dangling(data, j)}
VisiblePoints == {i \in 1..Len(data.points) : data.points[i].visible # FALSE}

\* The texts of a render that read the length of a line, and those that read
\* the label of a point.
IsLengthLabel(prim) ==
  /\ prim.kind = "text"
  /\ \E j \in 1..Len(data.lines) :
       HasLength(data.lines[j]) /\ prim.text = formatNumber(data.lines[j].length)
IsPointLabel(prim) ==
  /\ prim.kind = "text"
  /\ \E i \in 1..Len(data.points) : prim.text = data.points[i].label
IsLine(prim) == prim.kind = "line"
IsMarker(prim) == prim.kind = "marker"

PlainScene == data.angles = << >> /\ data.circles = << >> /\ data.curves = << >>

\* The parts of the claim that do not count length labels: one line per
\* resolving line, one marker and one label per visible point, nothing of the
\* curve, angle or circle layers, and the figures of the triangle A, B, C.
PlainSceneParts(prims) ==
  /\ Len(SelectSeq(prims, IsLine)) = Cardinality(ResolvingLines)
  /\ Len(SelectSeq(prims, IsMarker)) = Cardinality(VisiblePoints)
  /\ Len(SelectSeq(prims, IsPointLabel)) = Cardinality(VisiblePoints)
  /\ \A k \in 1..Len(prims) : LayerOfKind(prims[k].kind) \notin {3, 5, 6}
  /\ data = defaultData =>
       /\ Len(SelectSeq(prims, IsLine)) = 3
       /\ Len(SelectSeq(prims, IsMarker)) = 3
       /\ [k \in 1..3 |-> SelectSeq(prims, IsLengthLabel)[k].text] = <<"5", "5", "5">>
       /\ [k \in 1..3 |-> SelectSeq(prims, IsPointLabel)[k].text] = <<"A", "B", "C">>

AllReferencesResolve(scene) ==
  /\ \A j \in 1..Len(scene.lines) : ~Dangling(scene, j)
  /\ \A j \in 1..Len(scene.angles) :
       /\ Resolves(scene.points, scene.angles[j].vertex)
       /\ Resolves(scene.points, scene.angles[j].start)
       /\ Resolves(scene.points, scene.angles[j].end)
  /\ \A j \in 1..Len(scene.circles) :
       /\ Resolves(scene.points, scene.circles[j].center)
       /\ ~DanglingAnchor(scene, j)

\* The step deletes a point: the points afterwards are those before but one.
DeletesPoint ==
  \E i \in 1..Len(data.points) : data'.points = RemoveAt(data.points, i)

\* C25: from a scene in which every reference of every line, angle and circle
\* (centre, startPoint, endPoint) resolves, deleting a point leads to a scene in
\* which every reference of the remaining lines, angles and circles resolves.
C25_DeleteKeepsReferences ==
  [][(AllReferencesResolve(data) /\ DeletesPoint) => AllReferencesResolve(data')]_vars


(***************************************************************************)
(* Claims about the domain and the drag (Spec).                            *)
(***************************************************************************)
\* The screen position xScale, yScale give a point lies in the drawing area.
InDrawingArea(dom, point) ==
  /\ RLe(R(padding), xScale(dom, point.x)) /\ RLe(xScale(dom, point.x), R(width - padding))
  /\ RLe(R(padding), yScale(dom, point.y)) /\ RLe(yScale(dom, point.y), R(height - padding))

\* C26: at the identity view every point of the scene is mapped into the drawing
\* area [padding, width - padding] x [padding, height - padding]: the domain
\* covers the bounds of the scene.
C26_PointsInsideDrawingArea ==
  IdentityView =>
    \A dom \in {DomainOf(data)} :
      \A i \in 1..Len(data.points) : InDrawingArea(dom, data.points[i])


\* C27: at the identity view, when a drag event at pointer position e has moved
\* the point of the gesture and the replacement scene is rendered, the point is
\* drawn at e, also when the move changes the bounds of the scene and with them
\* the domain.
C27_DraggedPointUnderPointer ==
  [][ \A e \in SvgPositions :
        (DragMove(e) /\ IdentityView) =>
          OnScreen(data', data'.points[gesture.idx].x, data'.points[gesture.idx].y)
            = SPoint(R(e.x), R(e.y)) ]_vars


(***************************************************************************)
(* The circle of the add-circle operation (SpecShapes).                    *)
(***************************************************************************)
\* Circle i of the scene is as the add-circle operation makes it from the
\* scene's points.
AsAdded(i) == data.circles[i] = newCircle(data.points)

\* The full circle of the circle's radius around its centre point.
FullCircleOf(dom, circle, centerPoint) ==
  [group |-> "shape", kind |-> "circle",
   cx |-> xScale(dom, centerPoint.x), cy |-> yScale(dom, centerPoint.y),
   r |-> RSub(xScale(dom, RAdd(centerPoint.x, circle.radius)), xScale(dom, centerPoint.x))]

\* C28: the circle appended by the add-circle operation is rendered as a full
\* circle of its stored radius around its centre point.
C28_AddedCircleIsFullCircle ==
  \A i \in 1..Len(data.circles) :
    AsAdded(i) =>
      CirclePrims(i)[1] = FullCircleOf(DomainOf(data), data.circles[i],
                                       FindPoint(data.points, data.circles[i].center))


GenerateInFlight == {r \in requests : r.url = "/api/generate-geometry"}

\* C30: at most one generate-geometry request is in flight, and isLoading is
\* true (the generate button disabled) as long as an analyze or generate request
\* is outstanding; so no response of an older generate request can replace the
\* scene after a newer one was started.
C30_OneGenerateInFlight ==
  /\ Cardinality(GenerateInFlight) <= 1
  /\ requests # {} => isLoading

=============================================================================
